---- MODULE Spec2Model ----
(***************************************************************************)
(* Airguard ESP32 IoT: the ingest-and-fanout pipeline (node-backend REST   *)
(* + WebSocket server, MQTT -> MongoDB bridge, the shared MongoDB          *)
(* collection) and the send gate of the ESP32 sender firmware.             *)
(***************************************************************************)
EXTENDS Integers, Sequences, FiniteSets, TLC

(***************************************************************************)
(* Bounds of the server model                                              *)
(***************************************************************************)
MaxReq == 2
\* connections opened during a run
MaxConn == 1
\* the largest subscriber set
MaxFan == 3

BatchIds == {"b1", "b2"}
\* a document without a batchId field: the unique index keys it as null
NoBatch == "null"
Vals == {1, 2}
\* createdAt absent from the payload / already present in the payload
NoTs == -1
PresetTs == 0

Procs == {"backend", "bridge"}
Reqs == 1..MaxReq
Conns == 1..MaxFan

\* the payload carries no _id field: the driver gives the document a new ObjectId
NoId == "none"
\* _id values a payload may carry
Ids == {"x"}

\* request bodies: text that is not JSON, or a JSON object
Garbled == [json |-> FALSE, batchId |-> NoBatch, val |-> 0, ts |-> NoTs, id |-> NoId]
JsonBodies == [json : {TRUE}, batchId : BatchIds \cup {NoBatch}, val : Vals, ts : {NoTs, PresetTs},
               id : {NoId}]
Bodies == {Garbled} \cup JsonBodies
\* JSON objects that carry an _id field of their own
IdBodies == [json : {TRUE}, batchId : BatchIds, val : {1}, ts : {NoTs}, id : Ids]

NoDoc == [batchId |-> NoBatch, val |-> 0, createdAt |-> NoTs, id |-> NoId]
\* the query string of a GET /v1/samples request
NoQ == [limit |-> <<>>, skip |-> <<>>]
\* q, returned, total: the query of a list request, the length of the page
\* find() gave it and the count countDocuments() gave it
\* the Authorization header of a request: absent, or a text made of the
\* symbols "Bearer " (the seven characters), "s" and "x"
NoHeader == [given |-> FALSE, text |-> <<>>]
HeaderSyms == {"Bearer ", "s", "x"}
MaxHeaderLen == 2
Headers ==
  {NoHeader} \cup
  [given : {TRUE}, text : UNION {[1..n -> HeaderSyms] : n \in 0..MaxHeaderLen}]
\* AUTH_TOKEN when it is configured, and the header the guides tell clients to send
Token == <<"s">>
BearerHeader == [given |-> TRUE, text |-> <<"Bearer ">> \o Token]
\* the headers of the requests of the running service
KnownHeaders == {NoHeader, BearerHeader}
\* ts: the createdAt the payload of a submission carried (history);
\* hdr: the Authorization header authenticate read (history); q, returned,
\* total: the query of a list request, the length of the page find() gave
\* it and the count countDocuments() gave it
NewReq == [path |-> "none", pc |-> "new", res |-> "none",
           outcome |-> "none", status |-> 0, doc |-> NoDoc,
           q |-> NoQ, page |-> <<>>, returned |-> 0, total |-> 0, hdr |-> NoHeader,
           ts |-> NoTs]
\* lost: a send to this connection threw (history); gone: the number of
\* close and error handlers that have run for it (history)
NewConn == [proc |-> "none", state |-> "none", inSet |-> FALSE, ev |-> {}, inbox |-> <<>>,
            lost |-> FALSE, gone |-> 0]

VARIABLES
  \* ---- server side ----
  authToken,    \* AUTH_TOKEN is configured (backend)
  wsEnabled,    \* WS_ENABLED === 'true' (bridge)
  phase,        \* per process: progress of connectDB()
  uniqueIdx,    \* the collection has the unique index on batchId
  store,        \* the samples collection, in insertion order
  clock,        \* server wall clock read by new Date()
  nReq,         \* number of submissions received so far
  reqs,         \* the submissions: POST /v1/samples requests and bus messages
  ws,           \* the WebSocket connections and the two wsClients sets
  \* ---- history of the server side ----
  bcast,        \* per batchId, the number of broadcastToWS invocations
  openAt,       \* per submission, the subscribers live and open when it was persisted
  overlap,      \* pairs of submissions of one fresh batchId whose inserts were in flight together
  \* ---- sender firmware ----
  now,          \* millis() at the start of the next loop() iteration
  sender,       \* the firmware's global variables
  gps,          \* the TinyGPSPlus object and the GPS timestamps
  pendingCb,    \* esp_now_send calls whose onSent callback has not run yet
  \* ---- history of the sender ----
  pressNo,      \* number of measuring sessions started
  gate,         \* the last evaluation of the hard gate
  sent,         \* the sensor packets handed to esp_now_send
  redBlinks,    \* number of red x3 blinks shown
  \* ---- receiver firmware ----
  senderMac,    \* SENDER_MAC: all zeros (any sender) or one address
  serial,       \* the frames received so far and what onReceive printed for each
  \* ---- GET /v1/samples on a collection of a given size ----
  rq,           \* the query string parameters and the collection the query meets
  resp,         \* the response
  \* ---- store connectivity and GET /health ----
  dbUp,         \* the MongoDB server is reachable
  health        \* the last /health response

serverVars == <<authToken, wsEnabled, phase, uniqueIdx, store, clock, nReq, reqs, ws,
                bcast, openAt, overlap>>
senderVars == <<now, sender, gps, pendingCb, pressNo, gate, sent, redBlinks>>
receiverVars == <<senderMac, serial>>
readVars == <<rq, resp>>
healthVars == <<dbUp, health>>
vars == <<serverVars, senderVars, receiverVars, readVars, healthVars>>

(***************************************************************************)
(* The sample store: a MongoDB collection with a unique index on batchId   *)
(***************************************************************************)
Range(s) == {s[k] : k \in 1..Len(s)}

\* connectDB creates the index on batchId with { unique: true }; the
\* collection's built-in index on _id is unique from the start
DupKeyNotUnique(st, idx, doc) == FALSE
DupKey(st, idx, doc) ==
  \/ idx /\ \E r \in Range(st) : r.batchId = doc.batchId
  \/ doc.id # NoId /\ \E r \in Range(st) : r.id = doc.id

\* insertOne: E11000 on a duplicate key, otherwise the document is appended
InsertOneUpsert(st, idx, doc) ==
  IF \E k \in 1..Len(st) : st[k].batchId = doc.batchId
  THEN [k \in 1..Len(st) |-> IF st[k].batchId = doc.batchId THEN doc ELSE st[k]]
  ELSE Append(st, doc)
\* a capped collection of one document: the oldest record gives way
InsertOneCapped(st, idx, doc) ==
  IF DupKey(st, idx, doc) THEN st
  ELSE IF Len(st) >= 1 THEN Append(Tail(st), doc) ELSE Append(st, doc)
InsertOne(st, idx, doc) == IF DupKey(st, idx, doc) THEN st ELSE Append(st, doc)

\* findOne({ batchId })
FindOne(st, b) == {r \in Range(st) : r.batchId = b}

(***************************************************************************)
(* GET /v1/samples: the query parameters and the page                      *)
(***************************************************************************)
DefaultLimit == 100
MaxLimit == 1000
DefaultSkip == 0

\* query string values: the characters explored and the longest value
QueryChars == {"-", "0", "5", "a"}
MaxQueryLen == 4
QueryStrings == UNION {[1..n -> QueryChars] : n \in 0..MaxQueryLen}
\* a parameter that is absent from the query string (parseInt(undefined))
Absent == <<>>

Digit == <<"0", "1", "2", "3", "4", "5", "6", "7", "8", "9">>
IsDigit(c) == \E k \in 1..10 : Digit[k] = c
DigitVal(c) == (CHOOSE k \in 1..10 : Digit[k] = c) - 1

Min(a, b) == IF a < b THEN a ELSE b
Max(a, b) == IF a > b THEN a ELSE b

\* the longest prefix of decimal digits; NaN when there is none
RECURSIVE ParseDigits(_, _, _)
ParseDigits(s, acc, seen) ==
  IF s = <<>> \/ ~IsDigit(Head(s)) THEN [nan |-> ~seen, n |-> acc]
  ELSE ParseDigits(Tail(s), 10 * acc + DigitVal(Head(s)), TRUE)

\* parseInt(string): an optional sign, then decimal digits
ParseInt(s) ==
  IF s # <<>> /\ Head(s) = "-"
  THEN LET v == ParseDigits(Tail(s), 0, FALSE) IN [nan |-> v.nan, n |-> 0 - v.n]
  ELSE ParseDigits(s, 0, FALSE)

\* v || d: NaN and 0 are falsy
OrDefault(v, d) == IF v.nan \/ v.n = 0 THEN d ELSE v.n

\* Math.min(parseInt(req.query.limit) || 100, 1000)
QueryLimitNoCap(s) == OrDefault(ParseInt(s), DefaultLimit)
QueryLimit(s) == Min(OrDefault(ParseInt(s), DefaultLimit), MaxLimit)
\* parseInt(req.query.skip) || 0
QuerySkip(s) == OrDefault(ParseInt(s), DefaultSkip)

\* the server rejects a find with a negative skip
FindFails(skip) == skip < 0

\* the number of documents find().skip(skip).limit(limit).toArray() returns
\* from total documents: limit 0 is no limit; a negative limit asks for one
\* batch of at most -limit documents, and the server fills it with batch
\* documents
PageLen(total, skip, limit, batch) ==
  LET avail == Max(total - skip, 0)
  IN IF limit = 0 THEN avail
     ELSE IF limit > 0 THEN Min(limit, avail)
     ELSE Min(Min(0 - limit, batch), avail)

\* sort({ createdAt: -1 }): the documents in descending createdAt order; the
\* order of documents with equal createdAt is the server's choice
Sorted(st) ==
  {[k \in 1..Len(st) |-> st[f[k]]] :
     f \in {g \in [1..Len(st) -> 1..Len(st)] :
              /\ \A a, b \in 1..Len(st) : a # b => g[a] # g[b]
              /\ \A a, b \in 1..Len(st) :
                   a < b => st[g[a]].createdAt >= st[g[b]].createdAt}}

\* skip(skip).limit(limit).toArray() on the sorted documents r
Page(r, skip, limit, batch) ==
  SubSeq(r, skip + 1, skip + PageLen(Len(r), skip, limit, batch))

\* the sizes of the collection the query is run on, and the size of the
\* server's first batch (101 by default)
Totals == {0, 1, 100, 101, 1000, 1001, 5001}
FirstBatches == {1, 101}
SkipStrings == {Absent, <<"5">>, <<"-", "5">>}

NoQuery == [limit |-> Absent, skip |-> Absent, total |-> 0, batch |-> 1]
NoResp == [status |-> 0, limit |-> 0, skip |-> 0, returned |-> 0, total |-> 0]

\* the route handler on a collection of rq.total documents, store available
ListResponse(q) ==
  LET limit == QueryLimit(q.limit)
      skip == QuerySkip(q.skip)
  IN IF FindFails(skip) THEN [NoResp EXCEPT !.status = 500]
     ELSE [status |-> 200, limit |-> limit, skip |-> skip,
           returned |-> PageLen(q.total, skip, limit, q.batch), total |-> q.total]

ListSamples ==
  /\ resp = NoResp
  /\ resp' = ListResponse(rq)
  /\ UNCHANGED <<rq, serverVars, senderVars, receiverVars, healthVars>>

(***************************************************************************)
(* Fan-out                                                                 *)
(***************************************************************************)
SampleMsg(doc) == [type |-> "new_sample", batchId |-> doc.batchId, val |-> doc.val,
                   createdAt |-> doc.createdAt]
ConnectedMsg == [type |-> "connected", batchId |-> NoBatch, val |-> 0, createdAt |-> NoTs]

\* the members of a process's wsClients set
Clients(w, p) == {c \in Conns : w[c].proc = p /\ w[c].inSet}
OpenClients(w, p) == {c \in Clients(w, p) : w[c].state = "open"}

\* wsClients.forEach: send to every member whose readyState is OPEN; a send
\* that throws is caught and logged (the members in failing)
SendAllNoStateCheck(w, p, msg, failing) ==
  [c \in Conns |-> IF c \in Clients(w, p) /\ c \notin failing
                   THEN [w[c] EXCEPT !.inbox = Append(@, msg)]
                   ELSE IF c \in failing THEN [w[c] EXCEPT !.lost = TRUE] ELSE w[c]]
\* a throw that is not caught ends the forEach: the members after it get nothing
SendAllStopAtThrow(w, p, msg, failing) ==
  [c \in Conns |-> IF c \in OpenClients(w, p) /\ \A f \in failing : c < f
                   THEN [w[c] EXCEPT !.inbox = Append(@, msg)]
                   ELSE IF c \in OpenClients(w, p) /\ c \in failing
                        THEN [w[c] EXCEPT !.lost = TRUE]
                   ELSE w[c]]
SendAll(w, p, msg, failing) ==
  [c \in Conns |-> IF c \in OpenClients(w, p) /\ c \notin failing
                   THEN [w[c] EXCEPT !.inbox = Append(@, msg)]
                   ELSE IF c \in OpenClients(w, p) THEN [w[c] EXCEPT !.lost = TRUE]
                   ELSE w[c]]

\* backend broadcastToWS(message)
BackendBroadcast(w, doc, failing) == SendAll(w, "backend", SampleMsg(doc), failing)

\* bridge broadcastToWS(data): returns at once unless WS_ENABLED and a client exists
BridgeBroadcast(w, en, doc, failing) ==
  IF ~en \/ Clients(w, "bridge") = {} THEN w
  ELSE SendAll(w, "bridge", SampleMsg(doc), failing)

\* no /health response yet
NoHealth == [mongodb |-> "none", wsClients |-> 0, usable |-> FALSE]

(***************************************************************************)
(* Start-up: connectDB() in each process                                   *)
(***************************************************************************)
\* mongoClient.connect() resolved: db and samplesCollection are set and the
\* createIndex commands are issued ahead of every later command of this client
DbConnected(p) ==
  /\ phase[p] = "connecting"
  /\ dbUp
  /\ phase' = [phase EXCEPT ![p] = "indexing"]
  /\ uniqueIdx' = TRUE
  /\ UNCHANGED <<authToken, wsEnabled, store, clock, nReq, reqs, ws, bcast, openAt, overlap>>
  /\ UNCHANGED <<senderVars, receiverVars, readVars, healthVars>>

\* the createIndex calls resolved: connectDB() returns
DbIndexed(p) ==
  /\ phase[p] = "indexing"
  /\ phase' = [phase EXCEPT ![p] = "ready"]
  /\ UNCHANGED <<authToken, wsEnabled, uniqueIdx, store, clock, nReq, reqs, ws, bcast, openAt, overlap>>
  /\ UNCHANGED <<senderVars, receiverVars, readVars, healthVars>>

\* connect or createIndex rejected: the catch block calls process.exit(1)
DbFailed(p) ==
  /\ phase[p] \in {"connecting", "indexing"}
  /\ phase' = [phase EXCEPT ![p] = "exited"]
  /\ UNCHANGED <<authToken, wsEnabled, uniqueIdx, store, clock, nReq, reqs, ws, bcast, openAt, overlap>>
  /\ UNCHANGED <<senderVars, receiverVars, readVars, healthVars>>

\* the store becomes unreachable, or reachable again, behind the client
StoreLost ==
  /\ dbUp
  /\ dbUp' = FALSE
  /\ UNCHANGED <<health, serverVars, senderVars, receiverVars, readVars>>

StoreBack ==
  /\ ~dbUp
  /\ dbUp' = TRUE
  /\ UNCHANGED <<health, serverVars, senderVars, receiverVars, readVars>>

\* the backend's db variable is set: assigned once connect() has resolved and
\* never cleared
DbSet == phase["backend"] \in {"indexing", "ready"}

\* GET /health; usable records whether the connection is established and the
\* store reachable at the time of the response (history)
Health ==
  /\ phase["backend"] # "exited"
  /\ health' = [mongodb |-> IF DbSet THEN "connected" ELSE "disconnected",
                wsClients |-> Cardinality(Clients(ws, "backend")),
                usable |-> DbSet /\ dbUp]
  /\ UNCHANGED <<dbUp, serverVars, senderVars, receiverVars, readVars>>

(***************************************************************************)
(* Submissions                                                             *)
(***************************************************************************)
\* new Date(): the wall clock, later at each submission
Dates == {clock + 1}

\* submissions of the same still absent batchId whose insert is in flight
InFlightWith(b) ==
  IF FindOne(store, b) # {} THEN {}
  ELSE {j \in Reqs : reqs[j].pc = "await" /\ reqs[j].doc.batchId = b}

\* batchIds and payload values are interchangeable names: a submission uses
\* the next unused one or one used before
Fresh(i, body) ==
  /\ body.val <= i
  /\ body.batchId = "b2" => \E j \in 1..(i - 1) : reqs[j].doc.batchId = "b1"

\* String.prototype.replace(x, ''): the first occurrence of x is removed
RemoveFirst(s, x) ==
  IF \E k \in 1..Len(s) : s[k] = x
  THEN LET k == CHOOSE j \in 1..Len(s) : s[j] = x /\ \A m \in 1..(j - 1) : s[m] # x
       IN SubSeq(s, 1, k - 1) \o SubSeq(s, k + 1, Len(s))
  ELSE s

\* authenticate middleware: req.headers.authorization?.replace('Bearer ', '')
\* is compared with AUTH_TOKEN
Authenticate(hdr) ==
  ~authToken \/ (hdr.given /\ RemoveFirst(hdr.text, "Bearer ") = Token)
\* the header as authenticate leaves it in the request: read only when a
\* token is configured
HeaderRead(hdr) == IF authToken THEN hdr ELSE NoHeader

\* POST /v1/samples up to the await of insertOne
PostSamples(i, body, hdr, t) ==
  /\ i = nReq + 1
  /\ Fresh(i, body)
  /\ phase["backend"] # "exited"
  /\ nReq' = i
  /\ clock' = t
  /\ IF ~body.json
     THEN \* express.json() rejects the body before the route is reached
          /\ reqs' = [reqs EXCEPT ![i] = [NewReq EXCEPT !.path = "direct", !.pc = "done", !.outcome = "invalid", !.status = 400]]
          /\ UNCHANGED overlap
     ELSE IF ~Authenticate(hdr)
     THEN /\ reqs' = [reqs EXCEPT ![i] = [NewReq EXCEPT !.path = "direct", !.pc = "done", !.hdr = HeaderRead(hdr),
                                              !.outcome = "unauthorized", !.status = 401]]
          /\ UNCHANGED overlap
     ELSE IF phase["backend"] = "connecting"
     THEN \* samplesCollection is still undefined: TypeError, caught, not code 11000
          /\ reqs' = [reqs EXCEPT ![i] = [NewReq EXCEPT !.path = "direct", !.pc = "done", !.hdr = HeaderRead(hdr),
                                              !.outcome = "error", !.status = 500]]
          /\ UNCHANGED overlap
     ELSE /\ reqs' = [reqs EXCEPT ![i] = [NewReq EXCEPT !.path = "direct", !.pc = "await",
                        !.hdr = HeaderRead(hdr), !.ts = body.ts,
                        !.doc = [batchId |-> body.batchId, val |-> body.val, createdAt |-> t,
                                id |-> body.id]]]
          /\ overlap' = overlap \cup {{i, j} : j \in InFlightWith(body.batchId)}
  /\ UNCHANGED <<authToken, wsEnabled, phase, uniqueIdx, store, ws, bcast, openAt>>
  /\ UNCHANGED <<senderVars, receiverVars, readVars, healthVars>>

\* mqttClient.on('message') and processSample up to the await of insertOne
ProcessSample(i, body, t) ==
  /\ i = nReq + 1
  /\ Fresh(i, body)
  /\ phase["bridge"] # "exited"
  /\ nReq' = i
  /\ clock' = t
  /\ IF ~body.json
     THEN \* JSON.parse throws: logged by the outer catch
          /\ reqs' = [reqs EXCEPT ![i] = [NewReq EXCEPT !.path = "bus", !.pc = "done", !.outcome = "invalid"]]
          /\ UNCHANGED overlap
     ELSE IF phase["bridge"] = "connecting"
     THEN \* samplesCollection is still undefined: TypeError, rethrown, logged
          /\ reqs' = [reqs EXCEPT ![i] = [NewReq EXCEPT !.path = "bus", !.pc = "done", !.outcome = "error"]]
          /\ UNCHANGED overlap
     ELSE /\ reqs' = [reqs EXCEPT ![i] = [NewReq EXCEPT !.path = "bus", !.pc = "await", !.ts = body.ts,
                        !.doc = [batchId |-> body.batchId, val |-> body.val,
                                 createdAt |-> IF body.ts = NoTs THEN t ELSE body.ts,
                                 id |-> body.id]]]
          /\ overlap' = overlap \cup {{i, j} : j \in InFlightWith(body.batchId)}
  /\ UNCHANGED <<authToken, wsEnabled, phase, uniqueIdx, store, ws, bcast, openAt>>
  /\ UNCHANGED <<senderVars, receiverVars, readVars, healthVars>>

\* the store executes an insertOne
StoreInsertOne(i) ==
  /\ reqs[i].pc = "await"
  /\ LET doc == reqs[i].doc
         dup == DupKey(store, uniqueIdx, doc)
     IN /\ store' = InsertOne(store, uniqueIdx, doc)
        /\ reqs' = [reqs EXCEPT ![i].pc = "resume", ![i].res = IF dup THEN "dup" ELSE "ok"]
        /\ openAt' = IF dup THEN openAt
                     ELSE [openAt EXCEPT ![i] = {c \in Conns : ws[c].inSet /\ ws[c].state = "open"}]
  /\ UNCHANGED <<authToken, wsEnabled, phase, uniqueIdx, clock, nReq, ws, bcast, overlap>>
  /\ UNCHANGED <<senderVars, receiverVars, readVars, healthVars>>

\* the insertOne is rejected for another reason (store unreachable, timeout)
StoreError(i) ==
  /\ reqs[i].pc \in {"await", "find", "count", "findOne"}
  /\ reqs' = [reqs EXCEPT ![i].pc = "resume", ![i].res = "err"]
  /\ UNCHANGED <<authToken, wsEnabled, phase, uniqueIdx, store, clock, nReq, ws, bcast,
                 openAt, overlap>>
  /\ UNCHANGED <<senderVars, receiverVars, readVars, healthVars>>

\* POST /v1/samples after the await
PostResumeAlwaysBroadcast(i, failing) ==
  /\ reqs[i].path = "direct" /\ reqs[i].pc = "resume"
  /\ phase["backend"] # "exited"
  /\ failing \subseteq OpenClients(ws, "backend")
  /\ ws' = BackendBroadcast(ws, reqs[i].doc, failing)
  /\ bcast' = [bcast EXCEPT ![reqs[i].doc.batchId] = @ + 1]
  /\ reqs' = [reqs EXCEPT ![i].pc = "done",
                ![i].outcome = IF reqs[i].res = "ok" THEN "inserted" ELSE "duplicate",
                ![i].status = IF reqs[i].res = "ok" THEN 201 ELSE 409]
  /\ UNCHANGED <<authToken, wsEnabled, phase, uniqueIdx, store, clock, nReq, openAt, overlap>>
  /\ UNCHANGED <<senderVars, receiverVars, readVars, healthVars>>
PostResume(i, failing) ==
  /\ reqs[i].path = "direct" /\ reqs[i].pc = "resume"
  /\ phase["backend"] # "exited"
  /\ failing \subseteq OpenClients(ws, "backend")
  /\ IF reqs[i].res = "ok"
     THEN /\ ws' = BackendBroadcast(ws, reqs[i].doc, failing)
          /\ bcast' = [bcast EXCEPT ![reqs[i].doc.batchId] = @ + 1]
          /\ reqs' = [reqs EXCEPT ![i].pc = "done", ![i].outcome = "inserted", ![i].status = 201]
     ELSE /\ failing = {}
          /\ reqs' = [reqs EXCEPT ![i].pc = "done",
                        ![i].outcome = IF reqs[i].res = "dup" THEN "duplicate" ELSE "error",
                        ![i].status = IF reqs[i].res = "dup" THEN 409 ELSE 500]
          /\ UNCHANGED <<ws, bcast>>
  /\ UNCHANGED <<authToken, wsEnabled, phase, uniqueIdx, store, clock, nReq, openAt, overlap>>
  /\ UNCHANGED <<senderVars, receiverVars, readVars, healthVars>>

\* processSample after the await
\* the broadcast follows the insert whether it succeeded or not
ProcessResumeAlwaysBroadcast(i, failing) ==
  /\ reqs[i].path = "bus" /\ reqs[i].pc = "resume"
  /\ phase["bridge"] # "exited"
  /\ failing \subseteq (IF wsEnabled THEN OpenClients(ws, "bridge") ELSE {})
  /\ ws' = BridgeBroadcast(ws, wsEnabled, reqs[i].doc, failing)
  /\ bcast' = [bcast EXCEPT ![reqs[i].doc.batchId] = @ + 1]
  /\ reqs' = [reqs EXCEPT ![i].pc = "done",
                ![i].outcome = IF reqs[i].res = "ok" THEN "inserted"
                               ELSE IF reqs[i].res = "dup" THEN "duplicate" ELSE "error"]
  /\ UNCHANGED <<authToken, wsEnabled, phase, uniqueIdx, store, clock, nReq, openAt, overlap>>
  /\ UNCHANGED <<senderVars, receiverVars, readVars, healthVars>>
ProcessResume(i, failing) ==
  /\ reqs[i].path = "bus" /\ reqs[i].pc = "resume"
  /\ phase["bridge"] # "exited"
  /\ failing \subseteq (IF wsEnabled THEN OpenClients(ws, "bridge") ELSE {})
  /\ IF reqs[i].res = "ok"
     THEN /\ ws' = BridgeBroadcast(ws, wsEnabled, reqs[i].doc, failing)
          /\ bcast' = [bcast EXCEPT ![reqs[i].doc.batchId] = @ + 1]
          /\ reqs' = [reqs EXCEPT ![i].pc = "done", ![i].outcome = "inserted"]
     ELSE /\ failing = {}
          /\ reqs' = [reqs EXCEPT ![i].pc = "done",
                        ![i].outcome = IF reqs[i].res = "dup" THEN "duplicate" ELSE "error"]
          /\ UNCHANGED <<ws, bcast>>
  /\ UNCHANGED <<authToken, wsEnabled, phase, uniqueIdx, store, clock, nReq, openAt, overlap>>
  /\ UNCHANGED <<senderVars, receiverVars, readVars, healthVars>>

(***************************************************************************)
(* GET /v1/samples, one await at a time                                    *)
(***************************************************************************)
\* the query strings of the list requests
ListQueries == {NoQ, [limit |-> <<"5">>, skip |-> <<"-", "5">>]}
\* the server's default first batch
DefaultFirstBatch == 101

\* GET /v1/samples up to the await of find().toArray()
GetSamples(i, q, hdr) ==
  /\ i = nReq + 1
  /\ phase["backend"] # "exited"
  /\ nReq' = i
  /\ IF ~Authenticate(hdr)
     THEN reqs' = [reqs EXCEPT ![i] = [NewReq EXCEPT !.path = "list", !.pc = "done", !.q = q,
                                        !.hdr = HeaderRead(hdr),
                                        !.outcome = "unauthorized", !.status = 401]]
     ELSE IF phase["backend"] = "connecting"
     THEN \* samplesCollection is still undefined: TypeError, caught
          reqs' = [reqs EXCEPT ![i] = [NewReq EXCEPT !.path = "list", !.pc = "done", !.q = q,
                                        !.hdr = HeaderRead(hdr),
                                        !.outcome = "error", !.status = 500]]
     ELSE reqs' = [reqs EXCEPT ![i] = [NewReq EXCEPT !.path = "list", !.pc = "find", !.q = q,
                                        !.hdr = HeaderRead(hdr)]]
  /\ UNCHANGED <<authToken, wsEnabled, phase, uniqueIdx, store, clock, ws, bcast, openAt,
                 overlap>>
  /\ UNCHANGED <<senderVars, receiverVars, readVars, healthVars>>

\* the store executes the find: the page is cut from the collection as it is now
StoreFind(i) ==
  /\ reqs[i].pc = "find"
  /\ LET limit == QueryLimit(reqs[i].q.limit)
         skip == QuerySkip(reqs[i].q.skip)
     IN IF FindFails(skip)
        THEN reqs' = [reqs EXCEPT ![i].pc = "resume", ![i].res = "err"]
        ELSE \E r \in Sorted(store) :
               \E page \in {Page(r, skip, limit, DefaultFirstBatch)} :
                 reqs' = [reqs EXCEPT ![i].pc = "count", ![i].page = page,
                                      ![i].returned = Len(page)]
  /\ UNCHANGED <<authToken, wsEnabled, phase, uniqueIdx, store, clock, nReq, ws, bcast,
                 openAt, overlap>>
  /\ UNCHANGED <<senderVars, receiverVars, readVars, healthVars>>

\* the store executes the countDocuments
StoreCount(i) ==
  /\ reqs[i].pc = "count"
  /\ reqs' = [reqs EXCEPT ![i].pc = "resume", ![i].res = "found", ![i].total = Len(store)]
  /\ UNCHANGED <<authToken, wsEnabled, phase, uniqueIdx, store, clock, nReq, ws, bcast,
                 openAt, overlap>>
  /\ UNCHANGED <<senderVars, receiverVars, readVars, healthVars>>

\* GET /v1/samples after the awaits: res.json, or the catch block
GetResumeNoCatch(i) ==
  /\ reqs[i].path = "list" /\ reqs[i].pc = "resume"
  /\ phase["backend"] # "exited"
  /\ reqs' = [reqs EXCEPT ![i].pc = "done", ![i].outcome = "listed", ![i].status = 200]
  /\ UNCHANGED <<authToken, wsEnabled, phase, uniqueIdx, store, clock, nReq, ws, bcast,
                 openAt, overlap>>
  /\ UNCHANGED <<senderVars, receiverVars, readVars, healthVars>>
GetResume(i) ==
  /\ reqs[i].path = "list" /\ reqs[i].pc = "resume"
  /\ phase["backend"] # "exited"
  /\ IF reqs[i].res = "found"
     THEN reqs' = [reqs EXCEPT ![i].pc = "done", ![i].outcome = "listed", ![i].status = 200]
     ELSE reqs' = [reqs EXCEPT ![i].pc = "done", ![i].outcome = "error", ![i].status = 500]
  /\ UNCHANGED <<authToken, wsEnabled, phase, uniqueIdx, store, clock, nReq, ws, bcast,
                 openAt, overlap>>
  /\ UNCHANGED <<senderVars, receiverVars, readVars, healthVars>>

(***************************************************************************)
(* GET /v1/samples/:batchId                                                *)
(***************************************************************************)
\* GET /v1/samples/:batchId up to the await of findOne
GetSample(i, b, hdr) ==
  /\ i = nReq + 1
  /\ phase["backend"] # "exited"
  /\ nReq' = i
  /\ LET r == [NewReq EXCEPT !.path = "one", !.doc = [NoDoc EXCEPT !.batchId = b],
                             !.hdr = HeaderRead(hdr)]
     IN IF ~Authenticate(hdr)
        THEN reqs' = [reqs EXCEPT ![i] = [r EXCEPT !.pc = "done", !.outcome = "unauthorized",
                                                   !.status = 401]]
        ELSE IF phase["backend"] = "connecting"
        THEN \* samplesCollection is still undefined: TypeError, caught
             reqs' = [reqs EXCEPT ![i] = [r EXCEPT !.pc = "done", !.outcome = "error",
                                                   !.status = 500]]
        ELSE reqs' = [reqs EXCEPT ![i] = [r EXCEPT !.pc = "findOne"]]
  /\ UNCHANGED <<authToken, wsEnabled, phase, uniqueIdx, store, clock, ws, bcast, openAt,
                 overlap>>
  /\ UNCHANGED <<senderVars, receiverVars, readVars, healthVars>>

\* the store executes the findOne
StoreFindOne(i) ==
  /\ reqs[i].pc = "findOne"
  /\ reqs' = [reqs EXCEPT ![i].pc = "resume",
                ![i].res = IF FindOne(store, reqs[i].doc.batchId) # {} THEN "found"
                           ELSE "missing"]
  /\ UNCHANGED <<authToken, wsEnabled, phase, uniqueIdx, store, clock, nReq, ws, bcast,
                 openAt, overlap>>
  /\ UNCHANGED <<senderVars, receiverVars, readVars, healthVars>>

\* GET /v1/samples/:batchId after the await: res.json, 404, or the catch block
GetSampleResume(i) ==
  /\ reqs[i].path = "one" /\ reqs[i].pc = "resume"
  /\ phase["backend"] # "exited"
  /\ reqs' = [reqs EXCEPT ![i].pc = "done",
                ![i].outcome = CASE reqs[i].res = "found" -> "listed"
                                 [] reqs[i].res = "missing" -> "notfound"
                                 [] OTHER -> "error",
                ![i].status = CASE reqs[i].res = "found" -> 200
                                [] reqs[i].res = "missing" -> 404
                                [] OTHER -> 500]
  /\ UNCHANGED <<authToken, wsEnabled, phase, uniqueIdx, store, clock, nReq, ws, bcast,
                 openAt, overlap>>
  /\ UNCHANGED <<senderVars, receiverVars, readVars, healthVars>>

(***************************************************************************)
(* Subscriber connections                                                  *)
(***************************************************************************)
\* wss.on('connection'): add to wsClients, send the welcome message, and
\* register the close and error handlers
\* the new connection is sent the samples already stored (a backlog)
RECURSIVE Backlog(_)
Backlog(st) ==
  IF st = <<>> THEN <<>>
  ELSE <<[type |-> "new_sample", batchId |-> Head(st).batchId, val |-> Head(st).val,
          createdAt |-> Head(st).createdAt]>> \o Backlog(Tail(st))
WsConnectionReplay(c, p) ==
  /\ ws[c].state = "none"
  /\ c <= MaxConn
  /\ \A d \in Conns : d < c => ws[d].state # "none"
  /\ phase[p] # "exited"
  /\ p = "bridge" => wsEnabled
  /\ ws' = [ws EXCEPT ![c] = [proc |-> p, state |-> "open", inSet |-> TRUE, ev |-> {},
                              inbox |-> <<ConnectedMsg>> \o Backlog(store),
                              lost |-> FALSE, gone |-> 0]]
  /\ UNCHANGED <<authToken, wsEnabled, phase, uniqueIdx, store, clock, nReq, reqs, bcast,
                 openAt, overlap>>
  /\ UNCHANGED <<senderVars, receiverVars, readVars, healthVars>>
\* the set is replaced by one holding the new connection only: the earlier
\* additions are lost
WsConnectionReset(c, p) ==
  /\ ws[c].state = "none"
  /\ c <= MaxConn
  /\ \A d \in Conns : d < c => ws[d].state # "none"
  /\ phase[p] # "exited"
  /\ p = "bridge" => wsEnabled
  /\ ws' = [d \in Conns |->
             IF d = c THEN [proc |-> p, state |-> "open", inSet |-> TRUE, ev |-> {},
                            inbox |-> <<ConnectedMsg>>, lost |-> FALSE, gone |-> 0]
             ELSE IF ws[d].proc = p THEN [ws[d] EXCEPT !.inSet = FALSE]
             ELSE ws[d]]
  /\ UNCHANGED <<authToken, wsEnabled, phase, uniqueIdx, store, clock, nReq, reqs, bcast,
                 openAt, overlap>>
  /\ UNCHANGED <<senderVars, receiverVars, readVars, healthVars>>
WsConnectionNoAck(c, p) ==
  /\ ws[c].state = "none"
  /\ c <= MaxConn
  /\ \A d \in Conns : d < c => ws[d].state # "none"
  /\ phase[p] # "exited"
  /\ p = "bridge" => wsEnabled
  /\ ws' = [ws EXCEPT ![c] = [proc |-> p, state |-> "open", inSet |-> TRUE, ev |-> {},
                              inbox |-> <<>>, lost |-> FALSE, gone |-> 0]]
  /\ UNCHANGED <<authToken, wsEnabled, phase, uniqueIdx, store, clock, nReq, reqs, bcast,
                 openAt, overlap>>
  /\ UNCHANGED <<senderVars, receiverVars, readVars, healthVars>>
WsConnection(c, p) ==
  /\ ws[c].state = "none"
  /\ c <= MaxConn
  /\ \A d \in Conns : d < c => ws[d].state # "none"
  /\ phase[p] # "exited"
  /\ p = "bridge" => wsEnabled
  /\ ws' = [ws EXCEPT ![c] = [proc |-> p, state |-> "open", inSet |-> TRUE, ev |-> {},
                              inbox |-> <<ConnectedMsg>>, lost |-> FALSE, gone |-> 0]]
  /\ UNCHANGED <<authToken, wsEnabled, phase, uniqueIdx, store, clock, nReq, reqs, bcast,
                 openAt, overlap>>
  /\ UNCHANGED <<senderVars, receiverVars, readVars, healthVars>>

\* the socket leaves the OPEN state (peer closed, or the socket failed); the
\* events are emitted later
WsSocketDown(c, evs) ==
  /\ ws[c].state = "open"
  /\ evs \in {{"close"}, {"error", "close"}}
  /\ ws' = [ws EXCEPT ![c].state = "closed", ![c].ev = evs]
  /\ UNCHANGED <<authToken, wsEnabled, phase, uniqueIdx, store, clock, nReq, reqs, bcast,
                 openAt, overlap>>
  /\ UNCHANGED <<senderVars, receiverVars, readVars, healthVars>>

\* ws.on('close')
WsOnClose(c) ==
  /\ "close" \in ws[c].ev
  /\ ws' = [ws EXCEPT ![c].inSet = FALSE, ![c].ev = @ \ {"close"}, ![c].gone = @ + 1]
  /\ UNCHANGED <<authToken, wsEnabled, phase, uniqueIdx, store, clock, nReq, reqs, bcast,
                 openAt, overlap>>
  /\ UNCHANGED <<senderVars, receiverVars, readVars, healthVars>>

\* ws.on('error')
WsOnErrorClear(c) ==
  /\ "error" \in ws[c].ev
  /\ ws' = [d \in Conns |->
             IF d = c THEN [ws[d] EXCEPT !.inSet = FALSE, !.ev = @ \ {"error"}, !.gone = @ + 1]
             ELSE IF ws[d].proc = ws[c].proc THEN [ws[d] EXCEPT !.inSet = FALSE]
             ELSE ws[d]]
  /\ UNCHANGED <<authToken, wsEnabled, phase, uniqueIdx, store, clock, nReq, reqs, bcast,
                 openAt, overlap>>
  /\ UNCHANGED <<senderVars, receiverVars, readVars, healthVars>>
WsOnError(c) ==
  /\ "error" \in ws[c].ev
  /\ ws' = [ws EXCEPT ![c].inSet = FALSE, ![c].ev = @ \ {"error"}, ![c].gone = @ + 1]
  /\ UNCHANGED <<authToken, wsEnabled, phase, uniqueIdx, store, clock, nReq, reqs, bcast,
                 openAt, overlap>>
  /\ UNCHANGED <<senderVars, receiverVars, readVars, healthVars>>

(***************************************************************************)
(* Sender firmware (esp32s3-gps-mpu-button-sender.ino)                     *)
(***************************************************************************)
TEN_SEC_MS == 10000
LinkTimeoutMs == 5000
MpuTimeoutMs == 1200
GpsAgeMs == 2000
GpsSilenceMs == 3000
PingPeriodMs == 2000
DebounceMs == 30
IdleReadMs == 25
ProbePeriodMs == 1000
WarmupReads == 10
FailStreakLimit == 4
\* blink3: three times on 140 ms, off 140 ms
Blink3Ms == 3 * (140 + 140)
SendDelayMs == 30
LoopDelayMs == 5

\* millis() at the start of the loop() iteration the sender is observed in
T0 == 20000
\* loop() iterations start no later than this
MaxNow == 20000
\* time a loop() iteration takes beyond its own delays
Overheads == {1195}
\* time between the gate's checks and makePacket
MaxSkew == 1

\* ages of the health signals and of the hold at that iteration: around the
\* thresholds of the gate
LinkAges == {1, 4999, 5000}
MpuAges == {5, 1199, 1200}
FixAges == {10, 1999, 2000, 3000}
HoldAges == {30, 9999, 10000, 15000}

Levels == {"HIGH", "LOW"}
\* the MPU6050 during one iteration: answers reads, answers only the probe, absent
MpuInputs == {"ok", "fail", "absent"}
\* what the GPS UART delivers to one pumpGPS call: nothing, part of a sentence,
\* a sentence without a fix (0 satellites), a fix without / with a satellite count
GpsInputs == {"none", "chars", "nofix", "rmc", "gga"}
\* the deliveries explored
GpsFeeds == {"none", "nofix", "gga"}

\* ---- ESP-NOW ----
\* onSent: records a time only for a successful delivery
OnSent(ok) ==
  /\ pendingCb > 0
  /\ pendingCb' = pendingCb - 1
  /\ sender' = [sender EXCEPT !.lastSendSuccess = ok,
                              !.lastSendSuccessTs = IF ok THEN now ELSE @]
  /\ UNCHANGED <<now, gps, pressNo, gate, sent, redBlinks>>
  /\ UNCHANGED <<serverVars, receiverVars, readVars, healthVars>>

\* ---- MPU ----
\* readMPU at time t
ReadMPU(s, mpuIn, t) ==
  IF mpuIn = "ok" THEN [s EXCEPT !.mpuFailStreak = 0, !.mpuLastOK = t]
  ELSE [s EXCEPT !.mpuFailStreak = @ + 1]

IdleMPUUpdate(s, mpuIn, t) ==
  IF ~s.mpuReady \/ t - s.idleLast < IdleReadMs THEN s
  ELSE LET r == ReadMPU([s EXCEPT !.idleLast = t], mpuIn, t)
       IN IF mpuIn = "ok" /\ r.mpuWarmup > 0 THEN [r EXCEPT !.mpuWarmup = @ - 1] ELSE r

MpuHealthyAgeOnly(s, t) == t - s.mpuLastOK < MpuTimeoutMs
MpuHealthy(s, t) == s.mpuReady /\ t - s.mpuLastOK < MpuTimeoutMs

ReinitMPU(s, t) ==
  [s EXCEPT !.mpuReady = TRUE, !.mpuFailStreak = 0, !.mpuLastOK = t, !.mpuWarmup = WarmupReads]

ServiceMPU(s, duringMeasure, mpuIn, t) ==
  LET s1 == IF duringMeasure /\ s.mpuReady /\ s.mpuFailStreak >= FailStreakLimit
            THEN [s EXCEPT !.mpuReady = FALSE] ELSE s
  IN IF t - s1.lastProbeMs < ProbePeriodMs THEN s1
     ELSE LET s2 == [s1 EXCEPT !.lastProbeMs = t]
          IN IF mpuIn = "absent" THEN [s2 EXCEPT !.mpuReady = FALSE]
             ELSE IF ~s2.mpuReady THEN ReinitMPU(s2, t) ELSE s2

\* ---- GPS ----
PumpGPS(g, gpsIn, t) ==
  CASE gpsIn = "none"  -> g
    [] gpsIn = "chars" -> [g EXCEPT !.lastGpsCharMs = t]
    [] gpsIn = "nofix" -> [g EXCEPT !.lastGpsCharMs = t, !.lastGpsUpdateMs = t, !.sats = 0]
    [] gpsIn = "rmc"   -> [g EXCEPT !.lastGpsCharMs = t, !.lastGpsUpdateMs = t,
                                    !.locValid = TRUE, !.locTime = t]
    [] gpsIn = "gga"   -> [g EXCEPT !.lastGpsCharMs = t, !.lastGpsUpdateMs = t,
                                    !.locValid = TRUE, !.locTime = t, !.sats = 1]

GpsPresent(g, t) == t - g.lastGpsCharMs < GpsSilenceMs
GpsFresh(g, t) == t - g.lastGpsUpdateMs < GpsSilenceMs
GpsFixOK(g, t) ==
  GpsPresent(g, t) /\ GpsFresh(g, t) /\ g.locValid /\ t - g.locTime < GpsAgeMs /\ g.sats >= 1

\* ---- link ----
\* the link judged from the status of the last delivery, whatever its age
LinkOKLatched(s, t) == s.peerAdded /\ s.lastSendSuccess
LinkOK(s, t) ==
  s.peerAdded /\ s.lastSendSuccessTs # 0 /\ t - s.lastSendSuccessTs < LinkTimeoutMs

\* ---- status LED while idle ----
\* steady blue without looking at the MPU
StatusLedNoSensor(s, g, linkOK, t) ==
  IF ~s.peerAdded \/ ~linkOK THEN "white"
  ELSE IF GpsFixOK(g, t) THEN "blue"
  ELSE "blueblink"
StatusLed(s, g, linkOK, t) ==
  IF ~s.peerAdded \/ ~linkOK THEN "white"
  ELSE IF GpsFixOK(g, t) /\ MpuHealthy(s, t) THEN "blue"
  ELSE "blueblink"

\* ---- the hard gate at button release ----
HoldOKStrict(dur) == dur > TEN_SEC_MS
HoldOK(dur) == ~(dur < TEN_SEC_MS)

HardGateGpsFirst(dur, linkOK, s, g, t) ==
  IF ~HoldOK(dur) THEN "HoldTooShort"
  ELSE IF ~GpsFixOK(g, t) THEN "NoPositionFix"
  ELSE IF ~s.peerAdded \/ ~linkOK THEN "LinkDown"
  ELSE IF ~MpuHealthy(s, t) THEN "SensorUnhealthy"
  ELSE "Allow"
HardGate(dur, linkOK, s, g, t) ==
  IF ~HoldOK(dur) THEN "HoldTooShort"
  ELSE IF ~s.peerAdded \/ ~linkOK THEN "LinkDown"
  ELSE IF ~MpuHealthy(s, t) THEN "SensorUnhealthy"
  ELSE IF ~GpsFixOK(g, t) THEN "NoPositionFix"
  ELSE "Allow"

\* a failed check shows red x3 and returns from loop() before the send
BlockedNever(reason) == FALSE
Blocked(reason) == reason # "Allow"

\* the values esp_random() returns: any 32-bit number, here 1..MaxId
MaxId == 2
RandomIds == 1..MaxId

\* makePacket at time t; id is the value esp_random() returned
MakePacket(s, g, dur, id, press, t) ==
  [press |-> press, batchId |-> id, sessionMs |-> dur, samples |-> s.avgN,
   gpsFix |-> IF GpsFixOK(g, t) THEN 1 ELSE 0]

\* what the gate saw, kept for the properties
GateRecord(press, dur, s, g, t, reason) ==
  [press |-> press, dur |-> dur, reason |-> reason,
   peer |-> s.peerAdded, acked |-> s.lastSendSuccessTs # 0,
   linkAge |-> t - s.lastSendSuccessTs,
   mpuReady |-> s.mpuReady, mpuAge |-> t - s.mpuLastOK,
   locValid |-> g.locValid, fixAge |-> t - g.locTime, sats |-> g.sats,
   charAge |-> t - g.lastGpsCharMs, updAge |-> t - g.lastGpsUpdateMs]
NoGate == [press |-> 0, dur |-> 0, reason |-> "none", peer |-> FALSE, acked |-> FALSE,
           linkAge |-> 0, mpuReady |-> FALSE, mpuAge |-> 0, locValid |-> FALSE,
           fixAge |-> 0, sats |-> 0, charAge |-> 0, updAge |-> 0]

\* ---- loop() ----
\* the part of loop() before the button: pumpGPS was applied by the caller;
\* idleMPUUpdate, the status LED while idle, maybePing's timestamp
BeforeButton(s, g, mpuIn, t) ==
  LET s1 == IdleMPUUpdate(s, mpuIn, t)
      s2 == IF s1.measuring THEN s1
            ELSE [s1 EXCEPT !.led = StatusLed(s1, g, LinkOK(s1, t), t)]
  IN IF t - s2.lastPingMs >= PingPeriodMs THEN [s2 EXCEPT !.lastPingMs = t] ELSE s2

\* maybePing sends the heartbeat
\* the heartbeat goes out only while no peer is added
PingDueNoPeer(s, t) == t - s.lastPingMs >= PingPeriodMs /\ ~s.peerAdded
PingDue(s, t) == t - s.lastPingMs >= PingPeriodMs /\ s.peerAdded

\* the debounced button sees an edge
Edge(s, btn, t) == btn # s.lastBtn /\ t - s.lastDebounce > DebounceMs

\* while holding: red blink until 10 s, then green x3 once; accumulate a reading
Holding(s, green, mpuIn, tm) ==
  LET over == ~(tm - (IF green THEN Blink3Ms ELSE 0) - s.pressStart < TEN_SEC_MS)
      s6 == IF ~over THEN [s EXCEPT !.led = "redblink"]
            ELSE IF green THEN [s EXCEPT !.led = "off", !.notified10s = TRUE]
            ELSE s
  IN IF ~s6.mpuReady THEN s6
     ELSE IF mpuIn # "ok" THEN ReadMPU(s6, mpuIn, tm)
     ELSE IF s6.mpuWarmup > 0 THEN [ReadMPU(s6, mpuIn, tm) EXCEPT !.mpuWarmup = @ - 1]
     ELSE [ReadMPU(s6, mpuIn, tm) EXCEPT !.avgN = @ + 1]

\* one iteration that starts at millis() = now; btn is digitalRead(BUTTON_PIN)
Loop(btn, mpuIn, gpsIn, ov, skew, id) ==
  /\ now <= MaxNow
  /\ pendingCb = 0
  /\ \E g1 \in {PumpGPS(gps, gpsIn, now)} :
     \E linkOK \in {LinkOK(IdleMPUUpdate(sender, mpuIn, now), now)} :
     \E pings \in {IF PingDue(sender, now) THEN 1 ELSE 0} :
     \E s3 \in {BeforeButton(sender, g1, mpuIn, now)} :
     \E edge \in {Edge(s3, btn, now)} :
     \E s4 \in {IF edge THEN [s3 EXCEPT !.lastDebounce = now, !.lastBtn = btn] ELSE s3} :
     \E dur \in {now - s4.pressStart} :
     \E reason \in {HardGate(dur, linkOK, s4, g1, now)} :
       /\ gps' = g1
       /\ IF edge /\ btn = "HIGH" /\ s4.measuring /\ Blocked(reason)
          THEN \* discard: red x3 and return
               /\ skew = 0 /\ id = 1
               /\ sender' = [s4 EXCEPT !.measuring = FALSE, !.led = "off"]
               /\ gate' = GateRecord(pressNo, dur, s4, g1, now, reason)
               /\ redBlinks' = redBlinks + 1
               /\ pendingCb' = pings
               /\ now' = now + Blink3Ms + ov
               /\ UNCHANGED <<pressNo, sent>>
          ELSE IF edge /\ btn = "HIGH" /\ s4.measuring
          THEN \* build the packet and send it, delay(30), then the rest of loop()
               /\ sender' = ServiceMPU([s4 EXCEPT !.measuring = FALSE, !.lastSendSuccess = FALSE],
                                       FALSE, mpuIn, now + skew + SendDelayMs)
               /\ gate' = GateRecord(pressNo, dur, s4, g1, now, reason)
               /\ sent' = Append(sent, MakePacket(s4, g1, dur, id, pressNo, now + skew))
               /\ pendingCb' = pings + 1
               /\ now' = now + skew + SendDelayMs + LoopDelayMs + ov
               /\ UNCHANGED <<pressNo, redBlinks>>
          ELSE \E press \in {edge /\ btn = "LOW" /\ ~s4.measuring} :
               \E s5 \in {IF press
                          THEN [s4 EXCEPT !.measuring = TRUE, !.notified10s = FALSE,
                                          !.pressStart = now, !.avgN = 0]
                          ELSE s4} :
               \E green \in {s5.measuring /\ ~(now - s5.pressStart < TEN_SEC_MS)
                               /\ ~s5.notified10s} :
               \E tm \in {IF green THEN now + Blink3Ms ELSE now} :
               \E s7 \in {IF s5.measuring THEN Holding(s5, green, mpuIn, tm) ELSE s5} :
                 /\ skew = 0 /\ id = 1
                 /\ sender' = ServiceMPU(s7, s7.measuring, mpuIn, tm)
                 /\ pressNo' = IF press THEN pressNo + 1 ELSE pressNo
                 /\ pendingCb' = pings
                 /\ now' = tm + LoopDelayMs + ov
                 /\ UNCHANGED <<gate, sent, redBlinks>>
  /\ UNCHANGED <<serverVars, receiverVars, readVars, healthVars>>

(***************************************************************************)
(* The receiver firmware                                                   *)
(***************************************************************************)
HEARTBEAT == 165
\* sizeof(SensorPacket)
PacketSize == 64
\* frames received in a run
MaxFrames == 2

\* station addresses; SENDER_MAC all zeros accepts any of them
Macs == {"m1", "m2"}
AnyMac == "zeros"
\* frame lengths around that of the heartbeat and of the sensor packet, and
\* the first byte of the frame
FrameLens == {0, 1, 63, 64, 65}
FirstBytes == {HEARTBEAT, 0}

MacOK(cfg, src) == cfg = AnyMac \/ src = cfg

\* what onReceive does with a frame of len bytes from src
OnReceiveNoLengthCheck(cfg, src, len, first) ==
  IF ~MacOK(cfg, src) THEN "ignored"
  ELSE IF len = 1 /\ first = HEARTBEAT THEN "heartbeat"
  ELSE "sample"
OnReceive(cfg, src, len, first) ==
  IF ~MacOK(cfg, src) THEN "ignored"
  ELSE IF len = 1 /\ first = HEARTBEAT THEN "heartbeat"
  ELSE IF len # PacketSize THEN "unexpected"
  ELSE "sample"

\* the ESP-NOW receive callback runs for a frame
Receive(src, len, first) ==
  /\ Len(serial) < MaxFrames
  /\ serial' = Append(serial, [src |-> src, len |-> len, first |-> first,
                                out |-> OnReceive(senderMac, src, len, first)])
  /\ UNCHANGED <<senderMac, serverVars, senderVars, readVars, healthVars>>

(***************************************************************************)
(* Initial states and specifications                                       *)
(***************************************************************************)
ServerState(ph, idx) ==
  /\ phase = [p \in Procs |-> ph]
  /\ uniqueIdx = idx
  /\ store = <<>>
  /\ clock = 1
  /\ nReq = 0
  /\ reqs = [i \in Reqs |-> NewReq]
  /\ ws = [c \in Conns |-> NewConn]
  /\ bcast = [b \in BatchIds \cup {NoBatch} |-> 0]
  /\ openAt = [i \in Reqs |-> {}]
  /\ overlap = {}

\* both processes have finished their top-level await connectDB()
ServerReady == ServerState("ready", TRUE)
\* both processes have just been started on an empty database
ServerBoot == ServerState("connecting", FALSE)

\* The firmware's globals at the start of a loop() iteration, t0 ms after
\* boot, the packets of prior having been sent for earlier presses: setup()
\* has or has not added the peer; the last acknowledgment, MPU
\* read and GPS fix are of the given ages (linkAge 0: never acknowledged);
\* the button is held since holdAge ms (0: idle).
SenderFrom(t0, prior, peer, linkAge, mpu, mpuAge, streak, valid, fixAge, charAge, sats, holdAge, n) ==
  /\ now = t0
  /\ sender = [peerAdded |-> peer, lastSendSuccess |-> linkAge # 0,
               lastSendSuccessTs |-> IF linkAge = 0 THEN 0 ELSE t0 - linkAge,
               mpuReady |-> mpu, mpuFailStreak |-> streak, mpuWarmup |-> 0,
               mpuLastOK |-> t0 - mpuAge,
               idleLast |-> t0 - IdleReadMs, lastProbeMs |-> t0 - ProbePeriodMs,
               lastPingMs |-> t0 - PingPeriodMs, avgN |-> n,
               measuring |-> holdAge # 0, notified10s |-> holdAge > TEN_SEC_MS,
               pressStart |-> IF holdAge = 0 THEN 0 ELSE t0 - holdAge,
               lastDebounce |-> IF holdAge = 0 THEN 0 ELSE t0 - holdAge,
               lastBtn |-> IF holdAge = 0 THEN "HIGH" ELSE "LOW", led |-> "off"]
  /\ gps = [lastGpsCharMs |-> t0 - charAge, lastGpsUpdateMs |-> t0 - charAge,
            locValid |-> valid, locTime |-> IF valid THEN t0 - fixAge ELSE 0, sats |-> sats]
  /\ pendingCb = 0
  /\ pressNo = Len(prior) + (IF holdAge = 0 THEN 0 ELSE 1)
  /\ gate = NoGate
  /\ sent = prior
  /\ redBlinks = 0
SenderAt(peer, linkAge, mpu, mpuAge, streak, valid, fixAge, charAge, sats, holdAge, n) ==
  SenderFrom(T0, <<>>, peer, linkAge, mpu, mpuAge, streak, valid, fixAge, charAge, sats, holdAge, n)

\* the sender just after setup() found the peer and the MPU, idle
SenderIdle == SenderAt(TRUE, 0, TRUE, 5, 0, FALSE, 0, 3000, 0, 0, 0)

\* no read request and no health query yet; the store is reachable
ReadIdle == rq = NoQuery /\ resp = NoResp
HealthIdle == dbUp = TRUE /\ health = NoHealth
\* the receiver accepts any sender and has received nothing yet
ReceiverIdle == senderMac = AnyMac /\ serial = <<>>

\* The running service: any configuration of the two processes.
Init ==
  /\ authToken \in BOOLEAN
  /\ wsEnabled \in BOOLEAN
  /\ ServerReady
  /\ SenderIdle
  /\ ReadIdle
  /\ HealthIdle
  /\ ReceiverIdle

Next ==
  \/ \E i \in Reqs, body \in Bodies, hdr \in KnownHeaders, t \in Dates :
       PostSamples(i, body, hdr, t)
  \/ \E i \in Reqs, body \in Bodies, t \in Dates : ProcessSample(i, body, t)
  \/ \E i \in Reqs : StoreInsertOne(i)
  \/ \E i \in Reqs : StoreError(i)
  \/ \E i \in Reqs, failing \in SUBSET Conns : PostResume(i, failing)
  \/ \E i \in Reqs, failing \in SUBSET Conns : ProcessResume(i, failing)
  \/ \E c \in Conns, p \in Procs : WsConnection(c, p)
  \/ \E c \in Conns, evs \in {{"close"}, {"error", "close"}} : WsSocketDown(c, evs)
  \/ \E c \in Conns : WsOnClose(c)
  \/ \E c \in Conns : WsOnError(c)

Spec == Init /\ [][Next]_vars

\* The running service with reads of the collection next to the writes.
ReadWriteNext ==
  \/ Next
  \/ \E i \in Reqs, q \in ListQueries, hdr \in KnownHeaders : GetSamples(i, q, hdr)
  \/ \E i \in Reqs : StoreFind(i)
  \/ \E i \in Reqs : StoreCount(i)
  \/ \E i \in Reqs : GetResume(i)

ReadWriteSpec == Init /\ [][ReadWriteNext]_vars

\* The service from process start: submissions and subscribers may arrive
\* while connectDB() is still running.
StartupInit ==
  /\ authToken \in BOOLEAN
  /\ wsEnabled \in BOOLEAN
  /\ ServerBoot
  /\ SenderIdle
  /\ ReadIdle
  /\ HealthIdle
  /\ ReceiverIdle

StartupNext ==
  \/ \E p \in Procs : DbConnected(p)
  \/ \E p \in Procs : DbIndexed(p)
  \/ \E p \in Procs : DbFailed(p)
  \/ Next

StartupSpec == StartupInit /\ [][StartupNext]_vars

\* Both processes from their start, every endpoint reachable while connectDB()
\* is still running.
BootInit ==
  /\ authToken = FALSE
  /\ wsEnabled = TRUE
  /\ ServerBoot
  /\ SenderIdle
  /\ ReadIdle
  /\ HealthIdle
  /\ ReceiverIdle

BootNext ==
  \/ \E p \in Procs : DbConnected(p)
  \/ \E p \in Procs : DbIndexed(p)
  \/ \E p \in Procs : DbFailed(p)
  \/ \E i \in Reqs, body \in Bodies, hdr \in KnownHeaders, t \in Dates :
       PostSamples(i, body, hdr, t)
  \/ \E i \in Reqs, body \in Bodies, t \in Dates : ProcessSample(i, body, t)
  \/ \E i \in Reqs, q \in ListQueries, hdr \in KnownHeaders : GetSamples(i, q, hdr)
  \/ \E i \in Reqs : StoreInsertOne(i)
  \/ \E i \in Reqs : StoreFind(i)
  \/ \E i \in Reqs : StoreCount(i)
  \/ \E i \in Reqs : StoreError(i)
  \/ \E i \in Reqs, failing \in SUBSET Conns : PostResume(i, failing)
  \/ \E i \in Reqs, failing \in SUBSET Conns : ProcessResume(i, failing)
  \/ \E i \in Reqs : GetResume(i)
  \/ \E c \in Conns, p \in Procs : WsConnection(c, p)

BootSpec == BootInit /\ [][BootNext]_vars

\* The backend from its start with the store coming and going, subscribers
\* and health queries.
HealthNext ==
  \/ \E p \in Procs : DbConnected(p)
  \/ \E p \in Procs : DbIndexed(p)
  \/ \E p \in Procs : DbFailed(p)
  \/ StoreLost
  \/ StoreBack
  \/ Health
  \/ \E c \in Conns, p \in Procs : WsConnection(c, p)
  \/ \E c \in Conns, evs \in {{"close"}, {"error", "close"}} : WsSocketDown(c, evs)
  \/ \E c \in Conns : WsOnClose(c)
  \/ \E c \in Conns : WsOnError(c)

HealthSpec == BootInit /\ [][HealthNext]_vars

\* The running service with every route, the bus, the subscribers and the
\* health query.
\* GET /v1/samples on a collection that holds up to three samples, two of
\* them with the same createdAt, inserted in any order
PageDocs == {[batchId |-> "b1", val |-> 1, createdAt |-> 1, id |-> NoId],
             [batchId |-> "b2", val |-> 1, createdAt |-> 2, id |-> NoId],
             [batchId |-> NoBatch, val |-> 1, createdAt |-> 2, id |-> NoId]}
PageStores ==
  {st \in UNION {[1..n -> PageDocs] : n \in 0..3} :
     \A a, b \in 1..Len(st) : a # b => st[a] # st[b]}
PageQueries == [limit : {Absent, <<"1">>, <<"2">>, <<"-", "2">>},
                skip : {Absent, <<"1">>, <<"5">>, <<"-", "1">>}]

PageInit ==
  /\ authToken = FALSE
  /\ wsEnabled = FALSE
  /\ phase = [p \in Procs |-> "ready"]
  /\ uniqueIdx = TRUE
  /\ store \in PageStores
  /\ clock = 3
  /\ nReq = 0
  /\ reqs = [i \in Reqs |-> NewReq]
  /\ ws = [c \in Conns |-> NewConn]
  /\ bcast = [b \in BatchIds \cup {NoBatch} |-> 0]
  /\ openAt = [i \in Reqs |-> {}]
  /\ overlap = {}
  /\ SenderIdle
  /\ ReadIdle
  /\ HealthIdle
  /\ ReceiverIdle

PageNext ==
  \/ \E i \in Reqs, q \in PageQueries : GetSamples(i, q, NoHeader)
  \/ \E i \in Reqs : StoreFind(i)
  \/ \E i \in Reqs : StoreCount(i)
  \/ \E i \in Reqs : StoreError(i)
  \/ \E i \in Reqs : GetResume(i)

PageSpec == PageInit /\ [][PageNext]_vars

ServiceInit ==
  /\ authToken = FALSE
  /\ wsEnabled = FALSE
  /\ ServerReady
  /\ SenderIdle
  /\ ReadIdle
  /\ HealthIdle
  /\ ReceiverIdle

ServiceNext ==
  \/ ReadWriteNext
  \/ \E i \in Reqs, b \in BatchIds, hdr \in KnownHeaders : GetSample(i, b, hdr)
  \/ \E i \in Reqs : StoreFindOne(i)
  \/ \E i \in Reqs : GetSampleResume(i)
  \/ Health

ServiceSpec == ServiceInit /\ [][ServiceNext]_vars

\* The backend's three authenticated endpoints under every Authorization
\* header, with and without a configured token.
AuthInit ==
  /\ authToken \in BOOLEAN
  /\ wsEnabled = FALSE
  /\ ServerReady
  /\ SenderIdle
  /\ ReadIdle
  /\ HealthIdle
  /\ ReceiverIdle

AuthNext ==
  \/ \E i \in Reqs, body \in Bodies, hdr \in Headers, t \in Dates :
       PostSamples(i, body, hdr, t)
  \/ \E i \in Reqs, q \in ListQueries, hdr \in Headers : GetSamples(i, q, hdr)
  \/ \E i \in Reqs, b \in BatchIds, hdr \in Headers : GetSample(i, b, hdr)
  \/ \E i \in Reqs : StoreInsertOne(i)
  \/ \E i \in Reqs : StoreFind(i)
  \/ \E i \in Reqs : StoreCount(i)
  \/ \E i \in Reqs : StoreFindOne(i)
  \/ \E i \in Reqs : StoreError(i)
  \/ \E i \in Reqs, failing \in SUBSET Conns : PostResume(i, failing)
  \/ \E i \in Reqs : GetResume(i)
  \/ \E i \in Reqs : GetSampleResume(i)

AuthSpec == AuthInit /\ [][AuthNext]_vars

\* The running service receiving payloads that may carry an _id of their own.
DedupNext ==
  \/ \E i \in Reqs, body \in Bodies \cup IdBodies, hdr \in KnownHeaders, t \in Dates :
       PostSamples(i, body, hdr, t)
  \/ \E i \in Reqs, body \in Bodies \cup IdBodies, t \in Dates : ProcessSample(i, body, t)
  \/ \E i \in Reqs : StoreInsertOne(i)
  \/ \E i \in Reqs : StoreError(i)
  \/ \E i \in Reqs, failing \in SUBSET Conns : PostResume(i, failing)
  \/ \E i \in Reqs, failing \in SUBSET Conns : ProcessResume(i, failing)

DedupSpec == Init /\ [][DedupNext]_vars

\* The running service with MaxFan subscribers connected and one submission
\* whose insert is in flight.
FanoutInit ==
  /\ authToken = FALSE
  /\ wsEnabled \in BOOLEAN
  /\ phase = [p \in Procs |-> "ready"]
  /\ uniqueIdx = TRUE
  /\ store = <<>>
  /\ clock = 2
  /\ nReq = 1
  /\ \E path \in {"direct", "bus"} :
       reqs = [i \in Reqs |->
                 IF i = 1
                 THEN [NewReq EXCEPT !.path = path, !.pc = "await",
                                     !.doc = [batchId |-> "b1", val |-> 1, createdAt |-> 2,
                                             id |-> NoId]]
                 ELSE NewReq]
  /\ \E procOf \in [Conns -> Procs] :
       /\ wsEnabled \/ \A c \in Conns : procOf[c] = "backend"
       /\ ws = [c \in Conns |-> [proc |-> procOf[c], state |-> "open", inSet |-> TRUE,
                                 ev |-> {}, inbox |-> <<ConnectedMsg>>, lost |-> FALSE, gone |-> 0]]
  /\ bcast = [b \in BatchIds \cup {NoBatch} |-> 0]
  /\ openAt = [i \in Reqs |-> {}]
  /\ overlap = {}
  /\ SenderIdle
  /\ ReadIdle
  /\ HealthIdle
  /\ ReceiverIdle

FanoutNext ==
  \/ \E i \in Reqs : StoreInsertOne(i)
  \/ \E i \in Reqs : StoreError(i)
  \/ \E i \in Reqs, failing \in SUBSET Conns : PostResume(i, failing)
  \/ \E i \in Reqs, failing \in SUBSET Conns : ProcessResume(i, failing)
  \/ \E c \in Conns, evs \in {{"close"}, {"error", "close"}} : WsSocketDown(c, evs)
  \/ \E c \in Conns : WsOnClose(c)
  \/ \E c \in Conns : WsOnError(c)

FanoutSpec == FanoutInit /\ [][FanoutNext]_vars

\* The bridge with a sample of batch b1 stored earlier, one subscriber
\* connected and another one about to connect: bus messages arrive.
BusInit ==
  /\ authToken = FALSE
  /\ wsEnabled = TRUE
  /\ phase = [p \in Procs |-> "ready"]
  /\ uniqueIdx = TRUE
  /\ store = <<[batchId |-> "b1", val |-> 1, createdAt |-> 1, id |-> NoId]>>
  /\ clock = 1
  /\ nReq = 0
  /\ reqs = [i \in Reqs |-> NewReq]
  /\ \E p \in Procs :
       ws = [c \in Conns |->
               IF c # MaxConn + 1 THEN NewConn
               ELSE [proc |-> p, state |-> "open", inSet |-> TRUE, ev |-> {},
                     inbox |-> <<ConnectedMsg>>, lost |-> FALSE, gone |-> 0]]
  /\ bcast = [b \in BatchIds \cup {NoBatch} |-> 0]
  /\ openAt = [i \in Reqs |-> {}]
  /\ overlap = {}
  /\ SenderIdle
  /\ ReadIdle
  /\ HealthIdle
  /\ ReceiverIdle

BusNext ==
  \/ \E i \in Reqs, body \in Bodies, t \in Dates : ProcessSample(i, body, t)
  \/ \E i \in Reqs : StoreInsertOne(i)
  \/ \E i \in Reqs : StoreError(i)
  \/ \E i \in Reqs, failing \in SUBSET Conns : ProcessResume(i, failing)
  \/ \E c \in Conns, p \in Procs : WsConnection(c, p)
  \/ \E c \in Conns, evs \in {{"close"}, {"error", "close"}} : WsSocketDown(c, evs)
  \/ \E c \in Conns : WsOnClose(c)
  \/ \E c \in Conns : WsOnError(c)

BusSpec == BusInit /\ [][BusNext]_vars

\* The running service with two subscribers connected, a third one about
\* to connect, and one submission whose insert is in flight.
ChurnInit ==
  /\ authToken = FALSE
  /\ wsEnabled \in BOOLEAN
  /\ phase = [p \in Procs |-> "ready"]
  /\ uniqueIdx = TRUE
  /\ store = <<>>
  /\ clock = 2
  /\ nReq = 1
  /\ \E path \in {"direct", "bus"} :
       reqs = [i \in Reqs |->
                 IF i = 1
                 THEN [NewReq EXCEPT !.path = path, !.pc = "await",
                                     !.doc = [batchId |-> "b1", val |-> 1, createdAt |-> 2,
                                             id |-> NoId]]
                 ELSE NewReq]
  /\ \E procOf \in [Conns -> Procs] :
       /\ wsEnabled \/ \A c \in Conns : procOf[c] = "backend"
       /\ ws = [c \in Conns |->
                  IF c <= MaxConn THEN NewConn
                  ELSE [proc |-> procOf[c], state |-> "open", inSet |-> TRUE, ev |-> {},
                        inbox |-> <<ConnectedMsg>>, lost |-> FALSE, gone |-> 0]]
  /\ bcast = [b \in BatchIds \cup {NoBatch} |-> 0]
  /\ openAt = [i \in Reqs |-> {}]
  /\ overlap = {}
  /\ SenderIdle
  /\ ReadIdle
  /\ HealthIdle
  /\ ReceiverIdle

ChurnNext ==
  \/ FanoutNext
  \/ \E c \in Conns, p \in Procs : WsConnection(c, p)

ChurnSpec == ChurnInit /\ [][ChurnNext]_vars

\* GET /v1/samples for every query string, on collections of several sizes.
ReadInit ==
  /\ authToken = FALSE
  /\ wsEnabled = FALSE
  /\ ServerReady
  /\ SenderIdle
  /\ HealthIdle
  /\ ReceiverIdle
  /\ rq \in [limit : QueryStrings, skip : SkipStrings, total : Totals, batch : FirstBatches]
  /\ resp = NoResp

ReadNext == ListSamples

ReadSpec == ReadInit /\ [][ReadNext]_vars

\* The sender firmware, observed from some loop() iteration on.
SenderInit ==
  /\ authToken = FALSE
  /\ wsEnabled = FALSE
  /\ ServerReady
  /\ ReadIdle
  /\ HealthIdle
  /\ ReceiverIdle
  /\ \E peer \in BOOLEAN, linkAge \in {0} \cup LinkAges, mpu \in BOOLEAN, mpuAge \in MpuAges,
        streak \in {0, FailStreakLimit}, valid \in BOOLEAN, fixAge \in FixAges,
        charAge \in {10} \cup FixAges, sats \in {0, 1}, holdAge \in {0} \cup HoldAges,
        n \in {0, 1} :
       \* no acknowledgment without a peer
       /\ ~peer => linkAge = 0
       \* a failure streak: the last good read is not the latest read
       /\ streak # 0 => mpu /\ mpuAge # 5
       \* the MPU was marked not ready after reads had failed
       /\ ~mpu => mpuAge # 5
       \* the fix was decoded from characters received then or later
       /\ IF valid THEN charAge \in {10, fixAge} /\ charAge <= fixAge
          ELSE fixAge = 10 /\ charAge \in {10, 3000}
       \* readings are accumulated only while the button is held
       /\ holdAge = 0 => n = 0
       /\ SenderAt(peer, linkAge, mpu, mpuAge, streak, valid, fixAge, charAge, sats, holdAge, n)

SenderNext ==
  \/ \E ok \in BOOLEAN : OnSent(ok)
  \/ \E btn \in Levels, mpuIn \in MpuInputs, gpsIn \in GpsFeeds, ov \in Overheads,
        skew \in 0..MaxSkew, id \in RandomIds : Loop(btn, mpuIn, gpsIn, ov, skew, id)

SenderSpec == SenderInit /\ [][SenderNext]_vars

\* the sender early enough for a release, a new press and its release
PressT0 == MaxNow - 2500
\* The sender with the button held, every health signal fresh: the press is
\* released, and the button is pressed and released again.
PressInit ==
  /\ authToken = FALSE
  /\ wsEnabled = FALSE
  /\ ServerReady
  /\ ReadIdle
  /\ HealthIdle
  /\ ReceiverIdle
  /\ \E linkAge \in {1, 4999}, holdAge \in {9999, 10000, 15000} :
       SenderFrom(PressT0, <<>>, TRUE, linkAge, TRUE, 5, 0, TRUE, 10, 10, 1, holdAge, 1)

PressSpec == PressInit /\ [][SenderNext]_vars

\* The sender with the button held for ten seconds. Either a packet was sent
\* for an earlier press and every health signal is fresh, or no packet was
\* sent yet and a signal is older than its timeout or the MPU is marked not
\* ready: signals then come and go and the button is released.
OutageInit ==
  /\ authToken = FALSE
  /\ wsEnabled = FALSE
  /\ ServerReady
  /\ ReadIdle
  /\ HealthIdle
  /\ ReceiverIdle
  /\ \E linkAge \in {4999, 5000}, mpu \in BOOLEAN, mpuAge \in {5, 1199, 1200},
        fixAge \in {10, 2000} :
       \* the MPU was marked not ready after reads had failed
       /\ ~mpu => mpuAge # 5
       /\ mpu => mpuAge # 1199
       /\ \E prior \in {IF linkAge = 4999 /\ mpu /\ mpuAge = 5 /\ fixAge = 10
                          THEN <<[press |-> 1, batchId |-> 1, sessionMs |-> TEN_SEC_MS,
                                  samples |-> 1, gpsFix |-> 1]>>
                          ELSE <<>>} :
            SenderFrom(PressT0, prior, TRUE, linkAge, mpu, mpuAge, 0, TRUE, fixAge, 10, 1,
                       TEN_SEC_MS, 1)

OutageSpec == OutageInit /\ [][SenderNext]_vars

\* the sender early enough for a press, a hold of ten seconds and the release
HeartbeatT0 == MaxNow - 14000
\* The sender idle after setup() added the peer, never acknowledged or
\* acknowledged a moment ago, sensor and position healthy; the receiver
\* acknowledges every frame, the button is pressed and released at will.
HeartbeatInit ==
  /\ authToken = FALSE
  /\ wsEnabled = FALSE
  /\ ServerReady
  /\ ReadIdle
  /\ HealthIdle
  /\ ReceiverIdle
  /\ \E linkAge \in {0, 1} :
       SenderFrom(HeartbeatT0, <<>>, TRUE, linkAge, TRUE, 5, 0, TRUE, 10, 10, 1, 0, 0)

HeartbeatNext ==
  \/ OnSent(TRUE)
  \/ \E btn \in Levels, ov \in Overheads, skew \in 0..MaxSkew, id \in RandomIds :
       Loop(btn, "ok", "gga", ov, skew, id)

HeartbeatSpec == HeartbeatInit /\ [][HeartbeatNext]_vars

\* The receiver, locked to one sender or accepting any, receiving frames.
ReceiverInit ==
  /\ authToken = FALSE
  /\ wsEnabled = FALSE
  /\ ServerReady
  /\ ReadIdle
  /\ HealthIdle
  /\ SenderIdle
  /\ senderMac \in {AnyMac} \cup Macs
  /\ serial = <<>>

ReceiverNext ==
  \E src \in Macs, len \in FrameLens, first \in FirstBytes : Receive(src, len, first)

ReceiverSpec == ReceiverInit /\ [][ReceiverNext]_vars

\* The sender holding the button for a second batch, the packet of the first
\* batch having been sent with some batchId.
BatchInit ==
  /\ authToken = FALSE
  /\ wsEnabled = FALSE
  /\ ServerReady
  /\ ReadIdle
  /\ HealthIdle
  /\ ReceiverIdle
  /\ \E id \in RandomIds, linkAge \in LinkAges, fixAge \in {10, 1999}, holdAge \in HoldAges :
       SenderFrom(T0, <<[press |-> 1, batchId |-> id, sessionMs |-> TEN_SEC_MS,
                         samples |-> 1, gpsFix |-> 1]>>,
                  TRUE, linkAge, TRUE, 5, 0, TRUE, fixAge, 10, 1, holdAge, 1)

BatchSpec == BatchInit /\ [][SenderNext]_vars

(***************************************************************************)
(* Properties of the ingest pipeline                                       *)
(***************************************************************************)
\* the records of the collection that carry batchId b, by position
RecordsOf(b) == {k \in 1..Len(store) : store[k].batchId = b}
\* the submissions that carry batchId b
SubmissionsOf(b) == {i \in Reqs : reqs[i].pc # "new" /\ reqs[i].doc.batchId = b}
\* the number of new_sample events for document doc that connection c received
Events(c, doc) ==
  Cardinality({k \in 1..Len(ws[c].inbox) : ws[c].inbox[k] = SampleMsg(doc)})

\* C1: for every batchId b, whatever the submissions carrying b and their
\* interleaving on the two paths, the collection never holds more than one
\* record with batchId b, holds exactly one once the insert of one of them
\* has succeeded, and broadcastToWS has been invoked at most once for b.
C1_OneRecordOneBroadcast ==
  \A b \in BatchIds :
    /\ Cardinality(RecordsOf(b)) <= 1
    /\ (\E i \in SubmissionsOf(b) : reqs[i].res = "ok") => Cardinality(RecordsOf(b)) = 1
    /\ bcast[b] <= 1

\* the same batchId arrived on both paths: one submission was
\* inserted and broadcast, the other ended as duplicate
C1_Witness ==
  \E b \in BatchIds :
    /\ \E i, j \in SubmissionsOf(b) :
         /\ reqs[i].path = "direct" /\ reqs[j].path = "bus"
         /\ reqs[i].pc = "done" /\ reqs[j].pc = "done"
         /\ {reqs[i].outcome, reqs[j].outcome} = {"inserted", "duplicate"}
    /\ bcast[b] = 1
    /\ Cardinality(RecordsOf(b)) = 1

\* C2: two submissions of one batchId that is not stored yet, whose inserts
\* were in flight together and were both executed by the store, never both
\* end as inserted; unless a third submission stored the batchId first,
\* exactly one of them is inserted and the other is a duplicate.
C2_ConcurrentInsertsOneWins ==
  \A pr \in overlap : \A i, j \in pr :
    (i < j /\ reqs[i].res \in {"ok", "dup"} /\ reqs[j].res \in {"ok", "dup"}) =>
      /\ ~(reqs[i].res = "ok" /\ reqs[j].res = "ok")
      /\ (\A k \in SubmissionsOf(reqs[i].doc.batchId) \ {i, j} : reqs[k].res # "ok")
           => {reqs[i].res, reqs[j].res} = {"ok", "dup"}

\* a direct request and a bus message with the same batchId were in flight
\* together; the later one to arrive was inserted, the earlier one is a duplicate
C2_Witness ==
  \E pr \in overlap : \E i, j \in pr :
    /\ i < j
    /\ reqs[i].path # reqs[j].path
    /\ reqs[i].outcome = "duplicate" /\ reqs[j].outcome = "inserted"

\* C3: every newly persisted sample has been pushed, once its submission is
\* completed, as exactly one event to every subscriber connection that was
\* registered and open when it was persisted, on either path (stated here
\* for the subscribers that stayed open and to which no send threw).
C3_EveryStoredSampleReachesEverySubscriber ==
  \A i \in Reqs :
    reqs[i].outcome = "inserted" =>
      \A c \in openAt[i] :
        (ws[c].state = "open" /\ ~ws[c].lost) => Events(c, reqs[i].doc) = 1

\* a sample stored by one process while a subscriber of the other process's
\* WebSocket server was open, and stayed open: it received no event
C3_Witness ==
  \E i \in Reqs : \E c \in openAt[i] :
    /\ reqs[i].outcome = "inserted"
    /\ ws[c].proc # (IF reqs[i].path = "direct" THEN "backend" ELSE "bridge")
    /\ ws[c].state = "open" /\ ~ws[c].lost
    /\ Events(c, reqs[i].doc) = 0

\* C4: a submission that ended as duplicate left the stored record as the
\* first submission wrote it: get and list return the inserted document, and
\* no event carrying the duplicate's different values was sent.
C4_DuplicateChangesNothing ==
  \A j \in Reqs :
    reqs[j].res = "dup" =>
      \E i \in SubmissionsOf(reqs[j].doc.batchId) \ {j} :
        /\ reqs[i].res = "ok"
        /\ FindOne(store, reqs[j].doc.batchId) = {reqs[i].doc}
        /\ \A k \in RecordsOf(reqs[j].doc.batchId) : store[k] = reqs[i].doc
        /\ reqs[j].pc = "done" => reqs[j].outcome = "duplicate"
        /\ reqs[j].doc # reqs[i].doc => \A c \in Conns : Events(c, reqs[j].doc) = 0

\* P1 was created and pushed to an open subscriber, P2 with another value
\* then ended as duplicate
C4_Witness ==
  \E i, j \in Reqs : \E c \in Conns :
    /\ reqs[i].outcome = "inserted" /\ reqs[j].outcome = "duplicate"
    /\ reqs[i].doc.batchId = reqs[j].doc.batchId
    /\ reqs[i].doc.val # reqs[j].doc.val
    /\ Events(c, reqs[i].doc) = 1
    /\ ws[c].state = "open"

\* C5: a submission without a batchId (or one that is not JSON at all) is
\* never inserted and never broadcast, on either path.
C5_IncompleteNeverStored ==
  /\ \A k \in 1..Len(store) : store[k].batchId # NoBatch
  /\ bcast[NoBatch] = 0
  /\ \A i \in Reqs : reqs[i].doc.batchId = NoBatch => reqs[i].res # "ok"

\* a bus message without a batchId was inserted and broadcast
C5_Witness ==
  \E i \in Reqs :
    /\ reqs[i].path = "bus" /\ reqs[i].doc.batchId = NoBatch
    /\ reqs[i].outcome = "inserted"
    /\ RecordsOf(NoBatch) # {}
    /\ bcast[NoBatch] = 1

\* C6: a completed direct request has one of the four statuses, and the
\* status tells the outcome: 201 iff newly stored, 409 iff the batchId was
\* already stored, 400 iff the sample is invalid (not JSON, or no batchId),
\* 500 iff the store operation failed (stated here for the requests that
\* passed the authenticate middleware).
C6_StatusTellsOutcome ==
  \A i \in Reqs :
    (reqs[i].path = "direct" /\ reqs[i].pc = "done" /\ reqs[i].outcome # "unauthorized") =>
      /\ reqs[i].status \in {201, 409, 400, 500}
      /\ reqs[i].status = 201 <=> reqs[i].res = "ok"
      /\ reqs[i].status = 409 <=> reqs[i].res = "dup"
      /\ reqs[i].status = 400 <=> reqs[i].doc.batchId = NoBatch
      /\ reqs[i].status = 500 <=> reqs[i].res = "err"

\* a POST without a batchId was answered 201, a second one 409
C6_Witness ==
  \E i, j \in Reqs :
    /\ reqs[i].path = "direct" /\ reqs[j].path = "direct"
    /\ reqs[i].doc.batchId = NoBatch /\ reqs[j].doc.batchId = NoBatch
    /\ reqs[i].status = 201 /\ reqs[j].status = 409

(***************************************************************************)
(* Properties of the sender's send gate                                    *)
(***************************************************************************)
\* the button was released after a hold and the hard gate was evaluated
Released == gate.reason # "none"
\* a sensor packet was handed to esp_now_send for the press the gate judged
Transmitted == \E k \in 1..Len(sent) : sent[k].press = gate.press

\* the four conditions as the gate's inputs show them at the release
HoldCond == gate.dur >= 10000
LinkCond == gate.acked /\ gate.linkAge < 5000
SensorAgeCond == gate.mpuAge < 1200
PositionCond == gate.locValid /\ gate.fixAge < 2000 /\ gate.sats >= 1

\* C7 as stated: on release the batch is transmitted iff hold >= 10000 ms,
\* last acknowledgment < 5000 ms ago, last healthy sensor read < 1200 ms ago,
\* and position valid with fix age < 2000 ms and at least 1 satellite.
C7_TransmitIffFourConditions ==
  Released =>
    /\ Transmitted <=> (HoldCond /\ LinkCond /\ SensorAgeCond /\ PositionCond)
    /\ gate.reason = "Allow" <=> Transmitted

\* C7 amended: on release the batch is transmitted iff the four conditions
\* hold and the sensor is currently marked ready (mpuReady).
C7_TransmitIffConditionsAndSensorReady ==
  Released =>
    /\ Transmitted <=>
         (HoldCond /\ LinkCond /\ gate.mpuReady /\ SensorAgeCond /\ PositionCond)
    /\ gate.reason = "Allow" <=> Transmitted

\* a release with the four conditions satisfied and the sensor ready: sent
C7_Witness ==
  /\ Released /\ Transmitted
  /\ HoldCond /\ LinkCond /\ gate.mpuReady /\ SensorAgeCond /\ PositionCond

\* the first failing check, in the order of the gate's checks
FirstFailing ==
  IF ~HoldCond THEN "HoldTooShort"
  ELSE IF ~(gate.peer /\ LinkCond) THEN "LinkDown"
  ELSE IF ~(gate.mpuReady /\ SensorAgeCond) THEN "SensorUnhealthy"
  ELSE IF ~(PositionCond /\ gate.charAge < 3000 /\ gate.updAge < 3000) THEN "NoPositionFix"
  ELSE "Allow"

\* C8: when the gate denies, the reason is that of the first failing check
\* in the order hold-too-short, link-down, sensor-unhealthy, no-position-fix,
\* whatever the combination of failing conditions.
C8_ReasonIsFirstFailingCheck ==
  (Released /\ gate.reason # "Allow") => gate.reason = FirstFailing

\* a short hold with a dead link, an unhealthy sensor and no fix: hold-too-short
C8_Witness ==
  /\ gate.reason = "HoldTooShort"
  /\ ~LinkCond /\ ~SensorAgeCond /\ ~PositionCond

\* C9: a loop() iteration in which a gate check fails at the release sends no
\* sensor packet, shows the red x3 blink and ends the measuring session.
C9_DeniedBatchDiscarded ==
  [][(gate' # gate /\ gate'.reason # "Allow") =>
       /\ sent' = sent
       /\ redBlinks' = redBlinks + 1
       /\ sender.measuring /\ ~sender'.measuring
       /\ \A k \in 1..Len(sent') : sent'[k].press # gate'.press]_vars

\* a release was denied: red x3 shown, nothing sent, not measuring any more
C9_Witness ==
  /\ Released /\ gate.reason # "Allow"
  /\ redBlinks = 1 /\ sent = <<>> /\ ~sender.measuring

\* C10: the hold comparison is inclusive and the timeouts are strict: with the
\* other conditions satisfied a hold of exactly 10000 ms is allowed, a hold
\* of 9999 ms is denied as hold-too-short, and a link, sensor or position age
\* equal to its timeout is denied.
C10_ThresholdBoundaries ==
  Released =>
    /\ (gate.dur = 10000 /\ LinkCond /\ gate.mpuReady /\ SensorAgeCond
          /\ PositionCond) => gate.reason = "Allow" /\ Transmitted
    /\ gate.dur = 9999 => gate.reason = "HoldTooShort" /\ ~Transmitted
    /\ (HoldCond /\ gate.linkAge = 5000) => gate.reason = "LinkDown" /\ ~Transmitted
    /\ (HoldCond /\ LinkCond /\ gate.mpuAge = 1200)
         => gate.reason = "SensorUnhealthy" /\ ~Transmitted
    /\ (HoldCond /\ LinkCond /\ gate.mpuReady /\ SensorAgeCond
          /\ gate.fixAge = 2000) => gate.reason = "NoPositionFix" /\ ~Transmitted

\* a hold of exactly 10000 ms with the other conditions satisfied was sent
C10_Witness ==
  /\ gate.dur = 10000 /\ gate.reason = "Allow" /\ Transmitted
  /\ gate.linkAge = 4999 /\ gate.mpuAge = 1199 /\ gate.fixAge = 1999

(***************************************************************************)
(* Properties of the read endpoint                                         *)
(***************************************************************************)
\* the limit parameter is a number, and that number
LimitGiven == ~ParseInt(rq.limit).nan
Requested == ParseInt(rq.limit).n
\* the request was answered with a page
Listed == resp.status = 200

\* C11: for every requested limit, 0 and negative values and values above
\* the cap included, the limit used for the query is
\* max(1, min(requested, 1000)).
C11_EffectiveLimitClamped ==
  (Listed /\ LimitGiven) => resp.limit = Max(1, Min(Requested, 1000))

\* limit=0 was answered with the default limit of 100, not 1
C11_Witness ==
  /\ Listed
  /\ rq.limit = <<"0">>
  /\ resp.limit = 100

ServedBy(i) == IF reqs[i].path = "bus" THEN "bridge" ELSE "backend"
\* the subscribers a broadcast by process p addresses
Addressed(p) == IF p = "bridge" /\ ~wsEnabled THEN {} ELSE OpenClients(ws, p)
\* request i leaves its handler in this step, its insert having succeeded
Broadcasts(i) == reqs[i].pc = "resume" /\ reqs[i].res = "ok" /\ reqs'[i].pc = "done"
\* the send to connection c throws in this step
Throws(c) == ws'[c].lost /\ ~ws[c].lost

\* C13: when a sample is broadcast and the send to one subscriber fails,
\* every other open subscriber of the broadcasting process, whatever its
\* position in the set, still receives the event, and the failure is not
\* propagated: the submission is still reported as created.
C13_FailedSendIsolated ==
  [][\A i \in Reqs : Broadcasts(i) =>
        /\ \A c \in Addressed(ServedBy(i)) :
             ~Throws(c) => ws'[c].inbox = Append(ws[c].inbox, SampleMsg(reqs[i].doc))
        /\ reqs'[i].outcome = "inserted"
        /\ reqs[i].path = "direct" => reqs'[i].status = 201]_vars

\* three subscribers of the backend, the send to the second one threw, the
\* first and the third hold the event and the submission got 201
C13_Witness ==
  /\ reqs[1].path = "direct" /\ reqs[1].status = 201
  /\ \A c \in {1, 2, 3} : ws[c].proc = "backend"
  /\ ws[2].lost /\ Events(2, reqs[1].doc) = 0
  /\ ~ws[1].lost /\ Events(1, reqs[1].doc) = 1
  /\ ~ws[3].lost /\ Events(3, reqs[1].doc) = 1

\* C14: after a broadcast returns, every connection whose send failed during
\* that broadcast, and every connection the broadcast found in a non-open
\* state, is no longer a member of the subscriber set.
C14_BroadcastPrunesDeadConnections ==
  [][\A i \in Reqs : Broadcasts(i) =>
        \A c \in Clients(ws, ServedBy(i)) :
          (Throws(c) \/ ws[c].state # "open") => ~ws'[c].inSet]_vars

\* the broadcast is over and the connection whose send threw is still a
\* member of wsClients
C14_Witness ==
  /\ reqs[1].pc = "done" /\ reqs[1].outcome = "inserted"
  /\ \E c \in Conns : ws[c].proc = ServedBy(1) /\ ws[c].lost /\ ws[c].inSet

\* C15: every new subscriber connection is added to the subscriber set and
\* is sent an acknowledgment whose kind differs from that of data messages;
\* under every interleaving of connections and submissions the
\* acknowledgment is the first message of the connection, and everything
\* after it is a new-sample event.
C15_AckIsFirstMessage ==
  \A c \in Conns :
    /\ ws[c].state = "open" => ws[c].inSet
    /\ ws[c].state # "none" =>
         /\ Len(ws[c].inbox) >= 1
         /\ ws[c].inbox[1] = ConnectedMsg
         /\ \A k \in 2..Len(ws[c].inbox) :
              /\ ws[c].inbox[k].type = "new_sample"
              /\ ws[c].inbox[k].type # ConnectedMsg.type

\* a subscriber that has received the acknowledgment and then a new-sample
\* event
C15_Witness ==
  \E c \in Conns :
    /\ ws[c].inSet
    /\ Len(ws[c].inbox) = 2
    /\ ws[c].inbox[1].type = "connected"
    /\ ws[c].inbox[2].type = "new_sample"

\* a close or error handler of connection c runs in this step
Removes(c) == ws'[c].gone = ws[c].gone + 1
\* the members of every process's set, before and after the step
Members == {c \in Conns : ws[c].inSet}
MembersAfter == {c \in Conns : ws'[c].inSet}

\* C16: removal from the subscriber set is idempotent: when the close and
\* the error events both fire for one connection, in either order, the set
\* after each handler is the set without that connection, the second
\* removal leaves the set as the first one left it, and no other member is
\* affected.
C16_RemovalIdempotent ==
  [][\A c \in Conns : Removes(c) =>
        /\ MembersAfter = Members \ {c}
        /\ c \notin Members => MembersAfter = Members
        /\ \A d \in Conns \ {c} : ws'[d] = ws[d]]_vars

\* both handlers have run for one connection of a process while another
\* connection of that process is still a member
C16_Witness ==
  \E c, d \in Conns :
    /\ c # d /\ ws[c].proc = ws[d].proc
    /\ ws[c].gone = 2 /\ ~ws[c].inSet
    /\ ws[d].inSet

(***************************************************************************)
(* Store failure properties                                                *)
(***************************************************************************)
\* the handler of request i, whose store operation was rejected, finishes
\* in this step
FailsOver(i) ==
  /\ reqs[i].path \in {"direct", "list"}
  /\ reqs[i].pc = "resume" /\ reqs[i].res = "err"
  /\ reqs'[i].pc = "done"

\* C18: when a store operation fails in the middle of a direct-path
\* submission or of a read, the caller gets a server-error response, nothing
\* is broadcast and the subscriber set is unchanged.
C18_StoreFailureIsServerError ==
  [][\A i \in Reqs : FailsOver(i) =>
        /\ reqs'[i].status = 500
        /\ bcast' = bcast
        /\ ws' = ws]_vars

\* a submission and a read both ended with 500 after their store operation
\* failed, a subscriber being connected, and nothing was broadcast
C18_Witness ==
  /\ \E i, j \in Reqs :
       /\ reqs[i].path = "direct" /\ reqs[i].res = "err" /\ reqs[i].status = 500
       /\ reqs[j].path = "list" /\ reqs[j].res = "err" /\ reqs[j].status = 500
  /\ \E c \in Conns : ws[c].inSet /\ Len(ws[c].inbox) = 1
  /\ \A b \in BatchIds : bcast[b] = 0

(***************************************************************************)
(* Start-up properties                                                     *)
(***************************************************************************)
\* C17: no inbound traffic is handled before the store is ready: every
\* request or bus message that has been handled, and every subscriber
\* connection that has been accepted, belongs to a process whose connectDB()
\* has completed; and a process that exited because its store connection
\* failed has neither accepted nor dropped a sample.
C17_NoTrafficBeforeStoreReady ==
  /\ \A i \in Reqs : reqs[i].pc # "new" => phase[ServedBy(i)] = "ready"
  /\ \A c \in Conns : ws[c].state # "none" => phase[ws[c].proc] = "ready"
  /\ \A i \in Reqs :
       phase[ServedBy(i)] = "exited" => reqs[i].outcome \notin {"inserted", "error"}

\* the backend answered a submission with 500 while connecting, dropping
\* the sample, accepted a subscriber, and then exited on the failed
\* connection; the bridge dropped a bus message the same way
C17_Witness ==
  /\ phase["backend"] = "exited" /\ phase["bridge"] = "connecting"
  /\ store = <<>>
  /\ \E i, j \in Reqs :
       /\ reqs[i].path = "direct" /\ reqs[i].outcome = "error" /\ reqs[i].status = 500
       /\ reqs[j].path = "bus" /\ reqs[j].outcome = "error"
  /\ \E c \in Conns : ws[c].proc = "backend" /\ ws[c].inSet

(***************************************************************************)
(* Health properties                                                       *)
(***************************************************************************)
\* C19: the health query reports the store as connected exactly when the
\* store connection is established and usable at that time: disconnected
\* before the connection completes and after the store has become
\* unreachable.
C19_HealthTruthful ==
  health # NoHealth => (health.mongodb = "connected" <=> health.usable)

\* the store was lost after connectDB() and the health query still answered
\* connected
C19_Witness ==
  /\ phase["backend"] = "ready" /\ ~dbUp
  /\ health.mongodb = "connected" /\ ~health.usable

(***************************************************************************)
(* Deduplication key properties                                            *)
(***************************************************************************)
\* the store answers the insertOne of request i in this step
Answered(i) == reqs[i].pc = "await" /\ reqs'[i].pc = "resume" /\ reqs'[i].res # "err"

\* C20: batchId is the only field that decides duplication: an insert is
\* answered as a duplicate if and only if a record with an equal batchId is
\* already stored, so submissions with different batchIds never conflict,
\* whatever their other fields contain.
C20_OnlyBatchIdDecidesDuplicate ==
  [][\A i \in Reqs : Answered(i) =>
        (reqs'[i].res = "dup" <=> FindOne(store, reqs[i].doc.batchId) # {})]_vars

\* two submissions with different batchIds and the same _id: the second was
\* classified as a duplicate and only the first is stored
C20_Witness ==
  \E i, j \in Reqs :
    /\ reqs[i].doc.batchId = "b1" /\ reqs[j].doc.batchId = "b2"
    /\ reqs[i].doc.id = reqs[j].doc.id
    /\ reqs[i].outcome = "inserted" /\ reqs[j].outcome = "duplicate"
    /\ FindOne(store, "b2") = {}

(***************************************************************************)
(* Authentication properties                                               *)
(***************************************************************************)
\* request i reached the authenticate middleware of one of the three routes
Checked(i) ==
  /\ reqs[i].path \in {"direct", "list", "one"}
  /\ reqs[i].outcome # "invalid"
\* request i presented the configured token as its bearer credential
PresentsBearerToken(i) == reqs[i].hdr = BearerHeader

\* C21: when a token is configured, a request to the write endpoint or to
\* either read endpoint that does not present the token as its bearer
\* credential is answered 401 and causes no store operation (its handler
\* ends at once, nothing is read, written or broadcast for it); when no
\* token is configured no request is answered 401.
C21_UnauthorizedWithoutBearerToken ==
  \A i \in Reqs : Checked(i) =>
    /\ (authToken /\ ~PresentsBearerToken(i)) =>
         /\ reqs[i].status = 401
         /\ reqs[i].pc = "done" /\ reqs[i].res = "none"
         /\ reqs[i].doc.batchId \in BatchIds /\ reqs[i].path = "direct" =>
              \A r \in Range(store) : r # reqs[i].doc
    /\ ~authToken => reqs[i].status # 401

\* a token is configured, the Authorization header holds the bare token with
\* no Bearer scheme, and the submission was stored and answered 201
C21_Witness ==
  /\ authToken
  /\ \E i \in Reqs :
       /\ reqs[i].path = "direct"
       /\ reqs[i].hdr = [given |-> TRUE, text |-> Token]
       /\ reqs[i].status = 201

(***************************************************************************)
(* Subscriber message format properties                                    *)
(***************************************************************************)
\* AirguardWebSocket.onmessage of the integration guide: the listeners are
\* called for messages of type "sample" only
GuideClientHandles(msg) == msg.type = "sample"
\* the messages in the inbox of connection c that carry a stored sample
SampleEvents(c) == {k \in 1..Len(ws[c].inbox) : ws[c].inbox[k] # ConnectedMsg}

\* C22: every newly stored sample is pushed to the subscribers as a message
\* of type "sample", so a client that handles only messages of that type
\* receives every new sample.
C22_PushedAsTypeSample ==
  \A c \in Conns : \A k \in SampleEvents(c) : GuideClientHandles(ws[c].inbox[k])

\* a stored sample was pushed to a subscriber as a message of type
\* "new_sample", which the guide's client drops
C22_Witness ==
  \E c \in Conns : \E k \in SampleEvents(c) :
    /\ ws[c].inbox[k].type = "new_sample"
    /\ \E r \in Range(store) : ws[c].inbox[k] = SampleMsg(r)
    /\ ~GuideClientHandles(ws[c].inbox[k])

(***************************************************************************)
(* Properties of later presses and of batch identifiers                    *)
(***************************************************************************)
\* an earlier press than the one the gate judged last passed the gate and
\* was sent
EarlierPressSent == \E k \in 1..Len(sent) : sent[k].press < gate.press

\* C23: only the first press must be held for 10 seconds: once one press has
\* satisfied the hold gate and was sent, no later press is refused for the
\* length of its hold, however short.
C23_OnlyFirstPressNeedsHold ==
  (Released /\ EarlierPressSent) => gate.reason # "HoldTooShort"

\* the first press was held 10 s and sent; the second press, released
\* earlier than 10 s, was discarded with the red blinks
C23_Witness ==
  /\ Len(sent) = 1 /\ sent[1].press = 1 /\ sent[1].sessionMs >= TEN_SEC_MS
  /\ gate.press = 2 /\ gate.dur < TEN_SEC_MS
  /\ gate.reason = "HoldTooShort"
  /\ redBlinks = 1

\* the document the pipeline stores for packet p
DocOf(p) == [batchId |-> p.batchId, val |-> p.samples, createdAt |-> p.press, id |-> NoId]

\* C24: distinct capture sessions get distinct batchIds: no two packets sent
\* for different presses carry the same batchId, so the store, holding the
\* sample of an earlier batch, never rejects the sample of a later one as a
\* duplicate key.
C24_DistinctBatchesDistinctIds ==
  \A j, k \in 1..Len(sent) :
    j < k =>
      /\ sent[j].batchId # sent[k].batchId
      /\ ~DupKey(<<DocOf(sent[j])>>, TRUE, DocOf(sent[k]))

\* the packets of the first and of the second press carry the same batchId
C24_Witness ==
  /\ Len(sent) = 2
  /\ sent[1].press = 1 /\ sent[2].press = 2
  /\ sent[1].batchId = sent[2].batchId
  /\ DupKey(<<DocOf(sent[1])>>, TRUE, DocOf(sent[2]))

(***************************************************************************)
(* Equivalence of the two ingest paths                                     *)
(***************************************************************************)
\* request i, a submission on either path, is handed to the store in this step
HandedToStore(i) ==
  /\ reqs[i].pc = "new" /\ reqs'[i].pc = "await"
  /\ reqs'[i].path \in {"direct", "bus"}
\* the handler of submission i finishes in this step
Finishes(i) ==
  /\ reqs[i].pc = "resume" /\ reqs'[i].pc = "done"
  /\ reqs[i].path \in {"direct", "bus"}

\* C25: the bus path applies the ingest policy of the direct path: the
\* record either path hands to the store is the payload stamped with the
\* server time of its handling, the answer of the store is classified the
\* same way (inserted, duplicate, error), and a stored sample is broadcast
\* with the same event payload.
C25_PathsApplySamePolicy ==
  [][\A i \in Reqs :
       /\ HandedToStore(i) => reqs'[i].doc.createdAt = clock'
       /\ Finishes(i) =>
            /\ reqs'[i].outcome = CASE reqs[i].res = "ok" -> "inserted"
                                    [] reqs[i].res = "dup" -> "duplicate"
                                    [] OTHER -> "error"
            /\ bcast' = IF reqs[i].res = "ok"
                        THEN [bcast EXCEPT ![reqs[i].doc.batchId] = @ + 1]
                        ELSE bcast
            /\ \A c \in Conns :
                 ws'[c].inbox # ws[c].inbox =>
                   ws'[c].inbox = Append(ws[c].inbox, SampleMsg(reqs[i].doc))]_vars

\* a bus message that carried a createdAt of its own is stored with that
\* value and not with the server time of its handling
C25_Witness ==
  \E i \in Reqs :
    /\ reqs[i].path = "bus" /\ reqs[i].outcome = "inserted"
    /\ reqs[i].doc.createdAt = PresetTs
    /\ reqs[i].doc \in Range(store)

\* C26: the server timestamp is assigned only when the submitted sample does
\* not carry one: the record handed to the store keeps the createdAt of the
\* payload when there is one, and gets the time of submission otherwise.
C26_TimestampAssignedOnlyIfAbsent ==
  [][\A i \in Reqs : HandedToStore(i) =>
        reqs'[i].doc.createdAt = IF reqs'[i].ts # NoTs THEN reqs'[i].ts ELSE clock']_vars

\* a sample posted with a createdAt of its own is stored with another value
C26_Witness ==
  \E i \in Reqs :
    /\ reqs[i].path = "direct" /\ reqs[i].outcome = "inserted"
    /\ reqs[i].ts = PresetTs /\ reqs[i].doc.createdAt # PresetTs
    /\ reqs[i].doc \in Range(store)

(***************************************************************************)
(* Properties of the collection                                            *)
(***************************************************************************)
\* C27: the store is append-only and its records are immutable: across
\* every step (submissions, reads, subscriber events, health queries) each
\* stored record stays present with the field values, createdAt included,
\* it was stored with, and the number of records never decreases.
C27_StoreAppendOnly ==
  [][/\ Len(store') >= Len(store)
     /\ \A k \in 1..Len(store) : store'[k] = store[k]]_vars

\* a record was stored, and afterwards a submission with its batchId and
\* other field values was rejected, the health query answered, and a
\* subscriber came and went: the record is as it was stored
C27_Witness ==
  /\ Len(store) = 1
  /\ reqs[1].outcome = "inserted" /\ store[1] = reqs[1].doc
  /\ reqs[2].outcome = "duplicate" /\ reqs[2].doc.val # reqs[1].doc.val
  /\ health.mongodb = "connected"
  /\ \E c \in Conns : ws[c].gone > 0

(***************************************************************************)
(* Membership and ordering properties                                      *)
(***************************************************************************)
\* C28: under every interleaving of connections, close and error events and
\* broadcasts, the subscriber set holds exactly the connections that have
\* connected and for which no close or error handler has run since: no
\* addition is lost, no connection stays after its close event, and none
\* leaves without such an event.
C28_SetIsConnectedMinusClosed ==
  \A c \in Conns : ws[c].inSet <=> (ws[c].state # "none" /\ ws[c].gone = 0)

\* a connection joined while another one of the same process was leaving
\* and a third one stayed: the set holds the new and the staying one
C28_Witness ==
  \E c, d, e \in Conns :
    /\ c <= MaxConn /\ ws[c].inSet /\ Len(ws[c].inbox) = 2
    /\ ws[d].proc = ws[c].proc /\ ws[d].gone = 2 /\ ~ws[d].inSet
    /\ ws[e].proc = ws[c].proc /\ e # c /\ ws[e].inSet

\* the places of the store that hold the sample a pushed event describes
StoredAt(msg) ==
  {k \in 1..Len(store) : /\ store[k].batchId = msg.batchId
                         /\ store[k].val = msg.val
                         /\ store[k].createdAt = msg.createdAt}

\* C29: for any two distinct samples delivered to the same subscriber, the
\* order in which their events were sent to it is the order in which the
\* samples were inserted into the store, also when the two submissions
\* overlap in time.
C29_BroadcastOrderIsInsertOrder ==
  \A c \in Conns : \A j, k \in SampleEvents(c) :
    (j < k /\ ws[c].inbox[j].batchId # ws[c].inbox[k].batchId) =>
      \E a \in StoredAt(ws[c].inbox[j]), b \in StoredAt(ws[c].inbox[k]) : a < b

\* two submissions overlapped: the store holds the sample of the first
\* before the sample of the second, one subscriber got the event of the
\* second before the event of the first
C29_Witness ==
  /\ Len(store) = 2
  /\ reqs[1].outcome = "inserted" /\ reqs[2].outcome = "inserted"
  /\ store[1] = reqs[1].doc /\ store[2] = reqs[2].doc
  /\ \E c \in Conns :
       /\ Len(ws[c].inbox) = 3
       /\ ws[c].inbox[2] = SampleMsg(reqs[2].doc)
       /\ ws[c].inbox[3] = SampleMsg(reqs[1].doc)

(***************************************************************************)
(* Properties of the page                                                  *)
(***************************************************************************)
\* the records ranked k to k + n - 1 of the ranking r, fewer when r runs out
Ranked(r, k, n) == SubSeq(r, k + 1, Min(k + n, Len(r)))
\* the offset and the effective limit of list request i
Offset(i) == QuerySkip(reqs[i].q.skip)
EffectiveLimit(i) == QueryLimit(reqs[i].q.limit)

\* C30: for every offset k >= 0 and effective limit n, the list request
\* returns the records ranked k to k + n - 1 in descending createdAt order
\* (fewer when the store runs out), and a total equal to the number of
\* records in the store, whatever the limit and the offset.
C30_PageIsRankedSlice ==
  \A i \in Reqs :
    (reqs[i].outcome = "listed" /\ Offset(i) >= 0) =>
      /\ \E r \in Sorted(store) : reqs[i].page = Ranked(r, Offset(i), EffectiveLimit(i))
      /\ reqs[i].total = Len(store)

\* limit=-2 on three records: the effective limit is -2 and the response
\* carries the two newest records
C30_Witness ==
  \E i \in Reqs :
    /\ reqs[i].outcome = "listed" /\ reqs[i].status = 200
    /\ Len(store) = 3 /\ reqs[i].total = 3
    /\ Offset(i) = 0 /\ EffectiveLimit(i) = 0 - 2
    /\ Len(reqs[i].page) = 2
    /\ reqs[i].page[1].createdAt = 2 /\ reqs[i].page[2].createdAt = 2

(***************************************************************************)
(* No backlog, no replay                                                   *)
(***************************************************************************)
\* C31 as stated: a subscriber receives events only for samples persisted
\* while it was in the live set and open; a sample stored before it
\* connected, or while its connection was not open, is never sent to it.
C31_OnlyPersistedWhileLive ==
  \A i \in Reqs : \A c \in Conns :
    (reqs[i].outcome = "inserted" /\ Events(c, reqs[i].doc) >= 1) => c \in openAt[i]

\* C31 as amended: a subscriber is sent the event of a sample only in the
\* one broadcast its submission makes when the insert has returned, and only
\* if it is in the live set of the broadcasting process and open at that
\* broadcast; nothing else ever adds a sample event to a connection, so a
\* sample whose submission was completed before the subscriber connected, or
\* while its connection was not open, is never sent to it later.
C31_OnlySentInItsOwnBroadcast ==
  [][\A c \in Conns :
       ws'[c].inbox # ws[c].inbox =>
         \/ ws[c].state = "none" /\ ws'[c].inbox = <<ConnectedMsg>>
         \/ \E i \in Reqs :
              /\ Broadcasts(i)
              /\ c \in Addressed(ServedBy(i))
              /\ ws'[c].inbox = Append(ws[c].inbox, SampleMsg(reqs[i].doc))]_vars

\* two samples are stored through the backend; its subscriber, to which no
\* send failed, holds the event of the second one only: it connected after
\* the first submission was completed
C31_Witness ==
  \E c \in Conns :
    /\ reqs[1].outcome = "inserted" /\ reqs[2].outcome = "inserted"
    /\ reqs[1].path = "direct" /\ reqs[2].path = "direct"
    /\ ws[c].proc = "backend" /\ ws[c].state = "open" /\ ~ws[c].lost
    /\ ws[c].inbox = <<ConnectedMsg, SampleMsg(reqs[2].doc)>>
    /\ reqs[1].doc.batchId # reqs[2].doc.batchId

(***************************************************************************)
(* The gate's conditions follow the signals                                *)
(***************************************************************************)
PositionFullCond == PositionCond /\ gate.charAge < 3000 /\ gate.updAge < 3000
\* the health signal arrived after the first loop() iteration observed
AckedSince(t) == sender.lastSendSuccessTs > t
ReadSince(t) == sender.mpuLastOK > t
FixedSince(t) == gps.locTime > t

\* C32 as stated: no condition of the gate is latched: at a release after a
\* sufficient hold each of link, sensor and position is decided from the age
\* of its most recent health signal only, so a fresh signal makes it hold
\* and a signal older than the timeout makes it fail.
C32_DecidedFromSignalAgeOnly ==
  (Released /\ HoldCond) =>
    /\ gate.reason = "LinkDown" <=> ~(gate.peer /\ LinkCond)
    /\ (gate.peer /\ LinkCond) => (gate.reason = "SensorUnhealthy" <=> ~SensorAgeCond)
    /\ (gate.peer /\ LinkCond /\ SensorAgeCond) =>
         (gate.reason = "NoPositionFix" <=> ~PositionFullCond)

\* C32 as amended: the same, the sensor condition being the age of the last
\* good read together with the MPU's ready mark, which is cleared on failure
\* and set again by the next successful probe.
C32_DecidedFromSignalAgeAndReadyMark ==
  (Released /\ HoldCond) =>
    /\ gate.reason = "LinkDown" <=> ~(gate.peer /\ LinkCond)
    /\ (gate.peer /\ LinkCond) =>
         (gate.reason = "SensorUnhealthy" <=> ~(gate.mpuReady /\ SensorAgeCond))
    /\ (gate.peer /\ LinkCond /\ gate.mpuReady /\ SensorAgeCond) =>
         (gate.reason = "NoPositionFix" <=> ~PositionFullCond)

\* no packet had been sent and a condition failed when the run began; an
\* acknowledgment, a good read and a fix arrived since, and the release
\* passed the gate
C32_Witness ==
  /\ gate.press = 1 /\ gate.reason = "Allow"
  /\ Len(sent) = 1 /\ sent[1].press = 1
  /\ AckedSince(PressT0) /\ ReadSince(PressT0) /\ FixedSince(PressT0)

(***************************************************************************)
(* The status LED while idle                                               *)
(***************************************************************************)
\* a loop() iteration that begins and ends idle, and in which serviceMPU
\* leaves the MPU's ready mark as the status LED code saw it
IdleIteration ==
  /\ now' > now
  /\ ~sender.measuring /\ ~sender'.measuring
  /\ sender'.mpuReady = sender.mpuReady
\* what the hard gate answers for a hold of ten seconds released at time t
GateAt(s, g, t) == HardGate(TEN_SEC_MS, LinkOK(s, t), s, g, t)

FailedOutcomes == {"invalid", "duplicate", "error"}
\* bus message i ends in this step as unparseable, duplicate or store error
BusFails(i) ==
  /\ reqs'[i].path = "bus"
  /\ reqs[i].pc # "done" /\ reqs'[i].pc = "done"
  /\ reqs'[i].outcome \in FailedOutcomes
\* the store rejects the insert of bus message i in this step
BusRejected(i) ==
  /\ reqs[i].path = "bus"
  /\ reqs[i].pc = "await" /\ reqs'[i].pc = "resume"
  /\ reqs'[i].res \in {"dup", "err"}
\* an earlier bus message has failed
AfterFailure(i) ==
  \E j \in Reqs : j < i /\ reqs[j].path = "bus" /\ reqs[j].outcome \in FailedOutcomes

\* C34: a failure on the bus path is contained to its message: for an
\* unparseable payload, a re-delivered duplicate or a store error nothing is
\* broadcast, the store is left as it was and the bridge keeps running; a
\* later bus message is stored and broadcast as usual.
C34_BusFailureContained ==
  [][\A i \in Reqs :
       /\ (BusFails(i) \/ BusRejected(i)) =>
            /\ store' = store
            /\ \A c \in Conns : ws'[c].inbox = ws[c].inbox
            /\ bcast' = bcast
            /\ phase' = phase
       /\ (reqs[i].path = "bus" /\ Broadcasts(i) /\ AfterFailure(i)) =>
            /\ \E k \in 1..Len(store) : store[k] = reqs[i].doc
            /\ \A c \in Addressed("bridge") :
                 ~Throws(c) => ws'[c].inbox = Append(ws[c].inbox, SampleMsg(reqs[i].doc))
            /\ reqs'[i].outcome = "inserted"]_vars

\* the re-delivery of the stored batch b1 ended as a duplicate; the next bus
\* message, batch b2, was stored and pushed to a subscriber of the bridge,
\* which holds no event for b1
C34_Witness ==
  /\ reqs[1].path = "bus" /\ reqs[1].outcome = "duplicate" /\ reqs[1].doc.batchId = "b1"
  /\ reqs[2].path = "bus" /\ reqs[2].outcome = "inserted" /\ reqs[2].doc.batchId = "b2"
  /\ Len(store) = 2 /\ store[2] = reqs[2].doc
  /\ \E c \in Conns :
       /\ ws[c].proc = "bridge" /\ c > MaxConn
       /\ ws[c].inbox = <<ConnectedMsg, SampleMsg(reqs[2].doc)>>

(***************************************************************************)
(* The page and the total of one response                                  *)
(***************************************************************************)
\* C35: the page of a list response is consistent with the total beside it,
\* also when submissions run concurrently with the read: its length is
\* min(effective limit, max(0, total - offset)) for the total of the same
\* response.
C35_PageConsistentWithTotal ==
  \A i \in Reqs :
    reqs[i].outcome = "listed" =>
      Len(reqs[i].page) = Min(EffectiveLimit(i), Max(0, reqs[i].total - Offset(i)))

\* a list request answered with an empty page and total 1: the sample was
\* inserted between the find and the countDocuments
C35_Witness ==
  \E i, j \in Reqs :
    /\ reqs[i].outcome = "listed" /\ reqs[i].status = 200
    /\ reqs[i].page = <<>> /\ reqs[i].total = 1
    /\ EffectiveLimit(i) = DefaultLimit /\ Offset(i) = 0
    /\ reqs[j].path \in {"direct", "bus"} /\ reqs[j].res = "ok"
    /\ Len(store) = 1

(***************************************************************************)
(* Properties of the packet                                                *)
(***************************************************************************)
\* C36: every data packet the sender transmits carries gpsFix = 1: the fix
\* validity written into the packet agrees with the position check the gate
\* passed for the same release, whatever time elapses between the two.
C36_SentPacketHasFix ==
  \A k \in 1..Len(sent) : sent[k].gpsFix = 1

\* the gate passed with a fix 1999 ms old; the packet of that release was
\* built a millisecond later and carries gpsFix = 0
C36_Witness ==
  /\ gate.reason = "Allow" /\ gate.fixAge = 1999
  /\ \E k \in 1..Len(sent) : sent[k].press = gate.press /\ sent[k].gpsFix = 0

\* C37: every data packet the sender transmits is built from at least one
\* sensor reading taken during the hold that ends with its release: its
\* sample count is at least 1, so it never carries an all-zero motion record.
C37_SentPacketHasReading ==
  \A k \in 1..Len(sent) : sent[k].samples >= 1

\* the gate passed with the sensor healthy and the packet of that release
\* was built from no reading
C37_Witness ==
  /\ gate.reason = "Allow" /\ gate.mpuReady /\ gate.mpuAge < 1200
  /\ \E k \in 1..Len(sent) : sent[k].press = gate.press /\ sent[k].samples = 0

(***************************************************************************)
(* The heartbeat keeps the link                                            *)
(***************************************************************************)
\* loop() runs an iteration in this step
Iterates == now' # now
\* the gate is evaluated in this step
GateEvaluated == gate' # gate

AcceptedSender(src) == senderMac = AnyMac \/ senderMac = src
EmitsRecord(f) == f.out = "sample"
IsHeartbeatFrame(f) == f.len = 1 /\ f.first = HEARTBEAT

C39_RecordIffAcceptedAndPacketSized ==
  \A k \in 1..Len(serial) :
    /\ EmitsRecord(serial[k]) <=> (AcceptedSender(serial[k].src) /\ serial[k].len = 64)
    /\ IsHeartbeatFrame(serial[k]) => ~EmitsRecord(serial[k])
    /\ serial[k].len # 64 => ~EmitsRecord(serial[k])

\* a locked receiver has seen a heartbeat and then a sensor packet of its
\* sender: only the packet printed a record
C39_Witness ==
  /\ senderMac \in Macs
  /\ Len(serial) = 2
  /\ serial[1].src = senderMac /\ IsHeartbeatFrame(serial[1]) /\ ~EmitsRecord(serial[1])
  /\ serial[2].src = senderMac /\ serial[2].len = 64 /\ EmitsRecord(serial[2])

====
